---- MODULE Spec2Model ----
(***************************************************************************)
(* Model of the resumable Salesforce -> completion-service batch pipeline  *)
(* (main, getProcessedRecordIds, readCsvFile, combineFieldsWithLabels,     *)
(* chunkArray, querySalesforceRecordsChunk, querySalesforceRecords,        *)
(* appendResultsToCSV).                                                    *)
(*                                                                         *)
(* A JavaScript string is a finite sequence of tokens (a token stands for  *)
(* one run of characters; " " is a white-space token), so that trim() and  *)
(* template concatenation are computed and not assumed.                    *)
(***************************************************************************)
EXTENDS Integers, Sequences, FiniteSets, TLC

\* ------------------------------------------------------------------------
\* Program constants
\* ------------------------------------------------------------------------

\* const CHUNK_SIZE = 450 in querySalesforceRecords
CHUNK_SIZE == 450

\* the literal of `if (pageCount > 100)` in querySalesforceRecordsChunk
MAX_PAGES == 100

\* ------------------------------------------------------------------------
\* Bounds of the model
\* ------------------------------------------------------------------------

\* process invocations on the same input and output path
MaxRuns == 2

\* data rows of a small input artifact
MaxRows == 2

\* continuation tokens the store hands out per chunk, pipeline runs
MaxRunTokens == 1

\* continuation tokens the store hands out per chunk, query-only runs
MaxTokens == 102

\* filter values passed to querySalesforceRecords, query-only runs
MaxK == 902

\* hours the clock of authorize on its own can reach
MaxNow == 3

\* the life of a cached token, 2 * 60 * 60 * 1000 ms, in hours
TWO_HOURS == 2

\* batch sizes given to the summarizer
MaxBatch == 2

\* elements of a list given to chunkArray on its own
MaxLen == 5

\* chunk sizes given to chunkArray on its own, besides CHUNK_SIZE
MaxChunk == 3

\* field names in the list given to combineFieldsWithLabels on its own
MaxFields == 2

\* completion calls the service fails, over all invocations
MaxFailures == 1

\* ------------------------------------------------------------------------
\* Strings
\* ------------------------------------------------------------------------

\* JavaScript undefined / null (what record[field] is for a missing field)
Absent == <<"<undefined>">>

BOM == "\\uFEFF"

IsSpace(t) == t \in {" ", BOM}

\* JavaScript truthiness of a string-or-undefined value
Truthy(v) == v # Absent /\ v # <<>>

RECURSIVE TrimStart(_)
TrimStart(s) ==
    IF s = <<>> THEN <<>>
    ELSE IF IsSpace(Head(s)) THEN TrimStart(Tail(s))
    ELSE s

RECURSIVE TrimEnd(_)
TrimEnd(s) ==
    IF s = <<>> THEN <<>>
    ELSE IF IsSpace(s[Len(s)]) THEN TrimEnd(SubSeq(s, 1, Len(s) - 1))
    ELSE s

\* String.prototype.trim
Trim(s) == TrimEnd(TrimStart(s))

\* value.replace(/^\uFEFF/, '') of readCsvFile
StripBOM(s) == IF s # <<>> /\ Head(s) = BOM THEN Tail(s) ELSE s

\* Array.prototype.join
RECURSIVE Join(_, _)
Join(parts, sep) ==
    IF parts = <<>> THEN <<>>
    ELSE IF Len(parts) = 1 THEN parts[1]
    ELSE parts[1] \o sep \o Join(Tail(parts), sep)

SeqToSet(s) == {s[j] : j \in 1..Len(s)}

SetMax(S) == CHOOSE x \in S : \A y \in S : y <= x

\* ------------------------------------------------------------------------
\* The record store (external collaborator) and the requested fields
\* ------------------------------------------------------------------------

S(t) == <<t>>

\* fieldNames.split(',').map(field => field.trim())
fields == <<S("Q1"), S("Q2")>>

\* The records the store can hold.  Ids are unique; record "a" has an Id that
\* is also a value of the external-id field, record "r2" has only blank text.
RecordUniverse ==
    { [Id |-> S("a"),  Ext__c |-> S("b"), Q1 |-> S("x"),             Q2 |-> Absent],
      [Id |-> S("r1"), Ext__c |-> S("a"), Q1 |-> <<" ", "y", " ">>,  Q2 |-> S("z")],
      [Id |-> S("r2"), Ext__c |-> S("a"), Q1 |-> <<" ">>,            Q2 |-> <<>>],
      [Id |-> S("r3"), Ext__c |-> S("b"), Q1 |-> Absent,             Q2 |-> S("w")] }

\* ORDER BY Id
IdOrder == <<S("a"), S("r1"), S("r2"), S("r3")>>

\* record[name]
FieldOf(record, name) ==
    IF name = S("Id") THEN record.Id
    ELSE IF name = S("Ext__c") THEN record.Ext__c
    ELSE IF name = S("Q1") THEN record.Q1
    ELSE IF name = S("Q2") THEN record.Q2
    ELSE Absent

\* response.data.fields of the describe call: Q1 has a label, Q2 has none
DescribeFields == { [name |-> S("Q1"), label |-> S("Question 1")] }

\* WHERE <filterField> IN (<values>) ORDER BY Id, as the store answers it
Matching(st, filterFld, values) ==
    LET hit == {r \in st : FieldOf(r, filterFld) \in SeqToSet(values)}
        ids == SelectSeq(IdOrder, LAMBDA id : \E r \in hit : r.Id = id)
    IN  [j \in 1..Len(ids) |-> CHOOSE r \in hit : r.Id = ids[j]]

\* The store pages a result set as it likes: with p continuation tokens to
\* hand out it serves one record on each of the first p pages (none once the
\* result set is used up) and the remainder on page p+1.
PageRecords(all, p, page) ==
    IF page <= p
    THEN IF page <= Len(all) THEN <<all[page]>> ELSE <<>>
    ELSE IF page = p + 1 /\ p < Len(all) THEN SubSeq(all, p + 1, Len(all))
    ELSE <<>>

\* ------------------------------------------------------------------------
\* Pure functions of the program
\* ------------------------------------------------------------------------

\* column names that JavaScript treats as array indices
IndexNames == {S("7")}

\* readCsvFile: the 'headers' handler
readCsvHeader(header) == Trim(StripBOM(header))

\* readCsvFile: the 'data' handler, over all rows (first column only)
readCsvValues(rows) ==
    LET kept == SelectSeq(rows, LAMBDA v : Truthy(v) /\ Trim(v) # <<>>)
    IN  [j \in 1..Len(kept) |-> Trim(StripBOM(kept[j]))]

\* a row object whose first key is always the name of the first column
FirstKeyFirstColumn(hdr, row) == hdr[1]

\* csv-parser row object: Object.keys(data)[0].  The keys of a JavaScript
\* object come with the integer-like ones first, in ascending order (the
\* tables of the model have at most one such name), then the others in the
\* order they were first set
FirstKey(hdr, row) ==
    LET idx == {j \in 1..Len(hdr) : j <= Len(row) /\ hdr[j] \in IndexNames}
    IN  IF idx = {} THEN hdr[1] ELSE hdr[CHOOSE j \in idx : TRUE]

\* csv-parser row object: data[name]; a later column of the same name wins
Cell(hdr, row, name) ==
    LET idx == {j \in 1..Len(hdr) : hdr[j] = name /\ j <= Len(row)}
    IN  IF idx = {} THEN Absent ELSE row[SetMax(idx)]

\* readCsvFile: the 'data' handler's data[firstKey], for every data row
FirstValues(hdr, rows) ==
    [j \in 1..Len(rows) |-> Cell(hdr, rows[j], FirstKey(hdr, rows[j]))]

\* readCsvFile on a table with a header row: what the promise resolves with
readCsvFile(table) ==
    [filterField |-> readCsvHeader(table.header[1]),
     filterValues |-> readCsvValues(FirstValues(table.header, table.rows))]

\* getProcessedRecordIds: the 'data' handler's choice of the resume key
ResumeKey(hdr, row) ==
    LET a == Cell(hdr, row, S("Salesforce Record ID"))
        b == Cell(hdr, row, S("recordId"))
        c == IF hdr = <<>> THEN Absent ELSE Cell(hdr, row, FirstKey(hdr, row))
    IN  IF Truthy(a) THEN a ELSE IF Truthy(b) THEN b ELSE c

\* getProcessedRecordIds
getProcessedRecordIds(exists, lines) ==
    IF ~exists \/ lines = <<>> THEN {}
    ELSE LET hdr  == lines[1]
             keys == {ResumeKey(hdr, lines[j]) : j \in 2..Len(lines)}
         IN  {Trim(k) : k \in {x \in keys : Truthy(x) /\ Trim(x) # <<>>}}

\* a resume step that filters nothing
ResumeFilterNone(values, processed) == values

\* main: allFilterValues.filter(value => !processedIds.has(value))
ResumeFilter(values, processed) ==
    IF Cardinality(processed) > 0
    THEN SelectSeq(values, LAMBDA v : v \notin processed)
    ELSE values

\* a label lookup that always renders the raw field name
LabelOfFieldName(fieldMetadata, fieldName) == fieldName

\* fieldMetadata[fieldName]?.label || fieldName
LabelOf(fieldMetadata, fieldName) ==
    LET m == {e \in fieldMetadata : e.name = fieldName}
    IN  IF m # {} /\ Truthy((CHOOSE e \in m : TRUE).label)
        THEN (CHOOSE e \in m : TRUE).label
        ELSE fieldName

\* a field test that forgets .trim()
FieldHasTextNoTrim(record, fieldName) == Truthy(FieldOf(record, fieldName))

\* combineFieldsWithLabels: the test of one field
FieldHasText(record, fieldName) ==
    Truthy(FieldOf(record, fieldName)) /\ Trim(FieldOf(record, fieldName)) # <<>>

\* combineFieldsWithLabels
combineFieldsWithLabels(record, flds, fieldMetadata) ==
    LET used  == SelectSeq(flds, LAMBDA f : FieldHasText(record, f))
        parts == [j \in 1..Len(used) |->
                    LabelOf(fieldMetadata, used[j]) \o S(": ")
                        \o Trim(FieldOf(record, used[j]))]
    IN  Join(parts, S("\n\n"))

\* a chunkArray that leaves out a last chunk shorter than chunkSize
RECURSIVE chunkArrayFullOnly(_, _)
chunkArrayFullOnly(array, size) ==
    IF Len(array) < size THEN <<>>
    ELSE <<SubSeq(array, 1, size)>>
            \o chunkArrayFullOnly(SubSeq(array, size + 1, Len(array)), size)

\* chunkArray
RECURSIVE chunkArray(_, _)
chunkArray(array, chunkSize) ==
    IF Len(array) = 0 THEN <<>>
    ELSE IF Len(array) <= chunkSize THEN <<array>>
    ELSE <<SubSeq(array, 1, chunkSize)>>
            \o chunkArray(SubSeq(array, chunkSize + 1, Len(array)), chunkSize)

\* querySalesforceRecords: one direct chunk call, or chunkArray
PlanChunks(values) ==
    IF Len(values) <= CHUNK_SIZE THEN <<values>>
    ELSE chunkArray(values, CHUNK_SIZE)

\* an accumulation that keeps only the latest page
AccumulateLatest(acc, recs) == recs

\* an accumulation that leaves out the records it already holds
AccumulateDistinct(acc, recs) ==
    acc \o SelectSeq(recs, LAMBDA r : \A j \in 1..Len(acc) : acc[j].Id # r.Id)

\* allRecords.push(...records)
Accumulate(acc, recs) == acc \o recs

\* querySalesforceRecordsChunk: the safety check that breaks the do/while
PageLimitReached(count) == count > MAX_PAGES

\* main: the success outcome of one record
SuccessResult(record, filterFld, text, response) ==
    [recordId |-> record.Id, fv |-> FieldOf(record, filterFld),
     originalText |-> text, response |-> response]

\* an error outcome that records the bare message
ErrorResultBareMessage(record, filterFld, text, message) ==
    [recordId |-> record.Id, fv |-> FieldOf(record, filterFld),
     originalText |-> text, response |-> message]

\* main: the error outcome of one record, `Error: ${error.message}`
ErrorResult(record, filterFld, text, message) ==
    [recordId |-> record.Id, fv |-> FieldOf(record, filterFld),
     originalText |-> text, response |-> S("Error: ") \o message]

\* csv-writer: an undefined value is written as an empty cell
ToCell(v) == IF v = Absent THEN <<>> ELSE v

\* appendResultsToCSV: the header option of createObjectCsvWriter
HeaderRow(filterFld) ==
    <<S("Salesforce Record ID"), filterFld, S("Original Text"), S("LM Studio Response")>>

RowOf(result) ==
    <<ToCell(result.recordId), ToCell(result.fv),
      ToCell(result.originalText), ToCell(result.response)>>

\* a writer whose append option follows the unused writeHeader flag
AppendOptionFromWriteHeader(fileExists, skipHeaderCheck) ==
    ~(~fileExists /\ ~skipHeaderCheck)

\* a writer that is never put in append mode
AppendOptionNever(fileExists, skipHeaderCheck) == FALSE

\* appendResultsToCSV: the append option given to createObjectCsvWriter
AppendOption(fileExists, skipHeaderCheck) == fileExists

\* appendResultsToCSV, on the artifact [exists, lines]: csv-writer appends the
\* rows when its append option is set, and otherwise writes the header and
\* the rows to a new file
appendResultsToCSV(art, res, filterFld, skipHeaderCheck) ==
    IF Len(res) = 0 THEN art
    ELSE LET rows == [j \in 1..Len(res) |-> RowOf(res[j])]
         IN  IF AppendOption(art.exists, skipHeaderCheck)
             THEN [exists |-> TRUE, lines |-> art.lines \o rows]
             ELSE [exists |-> TRUE, lines |-> <<HeaderRow(filterFld)>> \o rows]

\* a user message that carries at most the first three tokens of the text
UserContentTruncated(prm, txt) ==
    prm \o S("\n\nText to analyze: ")
        \o SubSeq(txt, 1, IF Len(txt) < 3 THEN Len(txt) ELSE 3)

\* sendToLMStudio, sendToCopilot: `${prompt}\n\nText to analyze: ${text}`
UserContent(prm, txt) == prm \o S("\n\nText to analyze: ") \o txt

\* sendToLMStudio: lmStudioUrl and requestBody.messages
LMStudioRequest(urlEnv, prm, txt) ==
    [url |-> IF Truthy(urlEnv) THEN urlEnv
             ELSE S("http://127.0.0.1:1234/v1/chat/completions"),
     apiKey |-> Absent,
     messages |-> <<[role |-> "user", content |-> UserContent(prm, txt)]>>]

\* sendToCopilot: fullUrl (deployment and api version at their defaults), the
\* api-key header and requestBody.messages
CopilotRequest(url, key, prm, txt) ==
    [url |-> url \o S("/openai/deployments/") \o S("gpt-5-chat")
                 \o S("/chat/completions?api-version=") \o S("2024-02-15-preview"),
     apiKey |-> key,
     messages |-> <<[role |-> "system",
                     content |-> S("You are a helpful AI assistant that analyzes text and provides insights based on the given prompt.")],
                    [role |-> "user", content |-> UserContent(prm, txt)]>>]

CopilotKeyRequired ==
    S("COPILOT_API_KEY environment variable is required for Copilot integration")

CopilotUrlRequired ==
    S("COPILOT_API_URL environment variable is required. Set it to your Azure OpenAI base URL (e.g., https://xxx.openai.azure.com)")

\* the name the catch of a sender puts at the head of its messages
SenderName(copilot) == IF copilot THEN "Copilot" ELSE "LM Studio"

\* the catch of a sender, error.response set: the HTTP status and the body
SenderApiError(copilot, status, body) ==
    <<SenderName(copilot), " API error: ", status, " - ", body>>

\* the catch of a sender, no error.response: error.message
SenderConnectionError(copilot, message) ==
    <<SenderName(copilot), " connection error: ">> \o message

\* the calls in flight once the first pending call of this kind has settled
RECURSIVE WithoutCall(_, _)
WithoutCall(calls, kind) ==
    IF calls = <<>> THEN <<>>
    ELSE IF Head(calls) = kind THEN Tail(calls)
    ELSE <<Head(calls)>> \o WithoutCall(Tail(calls), kind)

\* authorize: what its catch reports before process.exit(1), and the Error
\* it throws for a missing environment variable
AuthErrors ==
    { S("Error during JWT login or token write: ") \o S("Command failed: sf org login jwt"),
      S("SFDC_CLIENT_ID environment variable is required") }

\* getFieldMetadata: the errors its catch throws
MetadataErrors ==
    { S("Salesforce Metadata API error: ") \o S("404") \o S(" - ") \o S("[NOT_FOUND]"),
      S("Network error: ") \o S("socket hang up") }

\* querySalesforceRecordsChunk: the errors its catch throws for chunk chunkIndex
ChunkErrors(chunkIndex) ==
    { S("Salesforce API error (Chunk ") \o S(ToString(chunkIndex)) \o S("): ")
          \o S("400") \o S(" - ") \o S("[MALFORMED_QUERY]"),
      S("Network error (Chunk ") \o S(ToString(chunkIndex)) \o S("): ")
          \o S("socket hang up") }

\* ------------------------------------------------------------------------
\* State
\* ------------------------------------------------------------------------

VARIABLES
    csvHeader,       \* input artifact: first cell of the header row
    csvRows,         \* input artifact: first cell of every data row
    store,           \* the records the remote store holds
    storeTokens,     \* continuation tokens the store hands out per chunk
    serviceFailures, \* completion calls the service has failed so far
    out,             \* output artifact: [exists, lines]
    pc,              \* position of main
    run,             \* number of the current process invocation
    filterField,     \* main: filterField
    allFilterValues, \* main: allFilterValues
    processedIds,    \* main: processedIds (the Resume Set)
    filterValues,    \* main: filterValues (after resume filtering)
    fieldMetadata,   \* main: fieldMetadata
    records,         \* main: records
    i,               \* main: loop index (1-based)
    results,         \* main: results
    chunks,          \* querySalesforceRecords: chunks
    ci,              \* querySalesforceRecords: chunk index (1-based)
    allRecords,      \* querySalesforceRecords: allRecords
    chunkRecords,    \* querySalesforceRecordsChunk: allRecords
    pageCount,       \* querySalesforceRecordsChunk: pageCount
    nextRecordsUrl,  \* querySalesforceRecordsChunk: <<>> is null, <<t>> a token
    isFirstQuery,    \* querySalesforceRecordsChunk: isFirstQuery
    inflight,        \* the page request awaiting its response
    outAtStart,      \* observation: the artifact when this run started
    sent,            \* observation: completion requests of this run
    queried,         \* observation: filter values put in store queries, this run
    appended,        \* observation: results appended in this run
    pageLog,         \* observation: page requests of this run's fetch
    waits,           \* observation: inter-chunk delays of this run's fetch
    replies,         \* observation: what the completion service answered, this run
    everAppended,    \* observation: results appended by all invocations so far
    prevEnd,         \* observation: the previous invocation was killed, or exited
    pendingCalls,    \* the remote calls issued and not yet returned or failed
    callLog,         \* observation: the remote calls issued in this run, in order
    error,           \* error.message of the error that ended the run (<<>>: none)
    failure,         \* observation: the remote call that failed
    resumeError,     \* observation: how reading the output artifact went wrong
    combineRecord,   \* combineFieldsWithLabels on its own: record
    combineFields,   \* combineFieldsWithLabels on its own: fields
    combineMetadata, \* combineFieldsWithLabels on its own: fieldMetadata
    combineResult,   \* combineFieldsWithLabels on its own: the value returned
    useCopilot,      \* sender on its own: main's useCopilot (the -c flag)
    prompt,          \* sender on its own: prompt
    text,            \* sender on its own: text
    copilotApiKey,   \* process.env.COPILOT_API_KEY
    copilotUrl,      \* process.env.COPILOT_API_URL
    lmStudioUrlEnv,  \* process.env.LM_STUDIO_URL
    posted,          \* sender on its own: the request given to axios.post
    sendOutcome,     \* sender on its own: what the call returned or threw
    inputTable,      \* a CSV reader on its own: the header row and the data rows
    chunkSize,       \* chunkArray on its own: chunkSize
    tokenCache,      \* sfdcJwtAuth: the in-memory token cache
    processEnv,      \* sfdcJwtAuth: process.env: accessToken is SF_ACCESS_TOKEN,
                     \* instanceUrl SF_INSTANCE_URL, loginUrl SFDC_LOGIN_URL; required
                     \* says that KEY_PASS, SFDC_CLIENT_ID and SFDC_USERNAME are set
    now,             \* sfdcJwtAuth: Date.now(), in hours
    live,            \* sfdcJwtAuth: the tokens the org accepts at present
    authResult,      \* sfdcJwtAuth: observation of the last call of authorize
    responses,       \* summarize: the value readResponsesFromCSV resolves with
    batches,         \* summarize: main's batches
    batchSize        \* summarize: main's batchSize

envVars == <<csvHeader, csvRows, store, storeTokens, serviceFailures>>
mainVars == <<filterField, allFilterValues, processedIds, filterValues,
              fieldMetadata, records, i, results>>
queryVars == <<chunks, ci, allRecords, chunkRecords, pageCount, nextRecordsUrl,
               isFirstQuery, inflight>>
obsVars == <<outAtStart, sent, queried, appended, pageLog, waits, replies,
            everAppended, prevEnd>>
callVars == <<pendingCalls, callLog, error, failure, resumeError>>
combineVars == <<combineRecord, combineFields, combineMetadata, combineResult>>
sendVars == <<useCopilot, prompt, text, copilotApiKey, copilotUrl, lmStudioUrlEnv,
              posted, sendOutcome>>
authVars == <<tokenCache, processEnv, now, live, authResult>>
summaryVars == <<responses, batches, batchSize>>
vars == <<envVars, out, pc, run, mainVars, queryVars, obsVars, callVars, combineVars,
          sendVars, inputTable, chunkSize, authVars, summaryVars>>

Terminal == {"done", "fatal", "killed"}

\* ------------------------------------------------------------------------
\* Inputs
\* ------------------------------------------------------------------------

Headers == {S("Id"), <<" ", "Ext__c">>}

RowCells == {S("a"), S("b"), <<" ", "r1">>}

RECURSIVE SeqsUpTo(_, _)
SeqsUpTo(C, n) ==
    IF n = 0 THEN {<<>>}
    ELSE LET shorter == SeqsUpTo(C, n - 1)
         IN  shorter \cup {Append(q, c) : q \in {x \in shorter : Len(x) = n - 1}, c \in C}

\* k filter values over a, b and a value z that matches nothing
KValues(k) ==
    [j \in 1..k |-> IF j % 3 = 1 THEN S("a") ELSE IF j % 3 = 2 THEN S("b") ELSE S("z")]

\* a value list one longer than a chunk: its first and last values are both a
BigRows == KValues(CHUNK_SIZE + 1)

NoRequest == [kind |-> "none", chunk |-> 0, page |-> 0, size |-> 0]

NoFailure == [kind |-> "none", chunk |-> 0, page |-> 0]

NoRecord == [Id |-> Absent, Ext__c |-> Absent, Q1 |-> Absent, Q2 |-> Absent]

\* combineFieldsWithLabels is not being exercised on its own
CombineIdle ==
    /\ combineRecord = NoRecord
    /\ combineFields = <<>>
    /\ combineMetadata = {}
    /\ combineResult = Absent

\* no CSV reader is being exercised on its own
NoTable == [header |-> <<>>, rows |-> <<>>]

\* a token, a URL or an environment variable that is null, undefined or unset
NoToken == "<none>"
NoUrl == "<none>"

\* tokenCache as the module is loaded: accessToken, instanceUrl and expiry null
EmptyCache ==
    [accessToken |-> NoToken, instanceUrl |-> NoUrl, expiry |-> [set |-> FALSE, at |-> 0]]

\* no call of authorize has been made
NoAuthResult ==
    [kind |-> "none", accessToken |-> NoToken, instanceUrl |-> NoUrl, path |-> "none",
     probes |-> <<>>, login |-> FALSE, at |-> 0,
     cacheBefore |-> EmptyCache, envBefore |-> NoToken, cacheAtLogin |-> EmptyCache]

\* sfdcJwtAuth is not part of the run
AuthIdle ==
    /\ tokenCache = EmptyCache
    /\ processEnv = [required |-> TRUE, loginUrl |-> NoUrl,
                     instanceUrl |-> NoUrl, accessToken |-> NoToken]
    /\ now = 0
    /\ live = {}
    /\ authResult = NoAuthResult

\* summarize is not part of the run
SummaryIdle ==
    /\ responses = <<>>
    /\ batches = <<>>
    /\ batchSize = 1

NoPost == [url |-> <<>>, apiKey |-> Absent, messages |-> <<>>]

NoOutcome == [kind |-> "none", value |-> <<>>]

\* no sender is being exercised on its own
SendIdle ==
    /\ useCopilot = FALSE
    /\ prompt = <<>>
    /\ text = <<>>
    /\ copilotApiKey = Absent
    /\ copilotUrl = Absent
    /\ lmStudioUrlEnv = Absent
    /\ posted = NoPost
    /\ sendOutcome = NoOutcome

LocalsInit ==
    /\ filterField = <<>>
    /\ allFilterValues = <<>>
    /\ processedIds = {}
    /\ filterValues = <<>>
    /\ fieldMetadata = {}
    /\ records = <<>>
    /\ i = 0
    /\ results = <<>>
    /\ chunks = <<>>
    /\ ci = 0
    /\ allRecords = <<>>
    /\ chunkRecords = <<>>
    /\ pageCount = 0
    /\ nextRecordsUrl = <<>>
    /\ isFirstQuery = TRUE
    /\ inflight = NoRequest
    /\ sent = <<>>
    /\ queried = {}
    /\ appended = <<>>
    /\ pageLog = <<>>
    /\ waits = 0
    /\ replies = <<>>
    /\ pendingCalls = <<>>
    /\ callLog = <<>>
    /\ error = <<>>
    /\ failure = NoFailure
    /\ resumeError = "none"

\* A first invocation of main, the output artifact absent; the input artifact
\* has a header row and data rows, or is empty (csvHeader Absent: no header
\* row).  The store pages its answers for the inputs of at most one row and
\* for one input of two chunks, and answers the others in one page
Init ==
    /\ AuthIdle
    /\ SummaryIdle
    /\ \/ /\ csvHeader \in Headers
          /\ csvRows \in SeqsUpTo(RowCells, MaxRows) \cup {BigRows}
       \/ /\ csvHeader = Absent
          /\ csvRows = <<>>
    /\ store = RecordUniverse
    /\ serviceFailures = 0
    /\ storeTokens \in IF Len(csvRows) <= 1 \/ (csvRows = BigRows /\ csvHeader = S("Id"))
                        THEN 0..MaxRunTokens ELSE {0}
    /\ out = [exists |-> FALSE, lines |-> <<>>]
    /\ outAtStart = [exists |-> FALSE, lines |-> <<>>]
    /\ pc = "start"
    /\ run = 1
    /\ prevEnd = "none"
    /\ everAppended = <<>>
    /\ LocalsInit
    /\ CombineIdle
    /\ SendIdle
    /\ chunkSize = CHUNK_SIZE
    /\ inputTable = NoTable

\* ------------------------------------------------------------------------
\* main, up to the query
\* ------------------------------------------------------------------------

\* const { filterField, filterValues: allFilterValues } = await readCsvFile(csvFile).
\* An input artifact with no header row never raises the 'headers' event:
\* filterField stays null and the promise resolves at 'end'.
ReadCsv ==
    /\ pc = "start"
    /\ filterField' = IF csvHeader = Absent THEN Absent ELSE readCsvHeader(csvHeader)
    /\ allFilterValues' = readCsvValues(csvRows)
    /\ pc' = "resume"
    /\ UNCHANGED <<envVars, out, run, processedIds, filterValues, fieldMetadata,
                   records, i, results, queryVars, obsVars>>
    /\ UNCHANGED <<callVars, combineVars, sendVars, inputTable, chunkSize, authVars, summaryVars>>

\* main, lines 45-56, given the set getProcessedRecordIds resolved with: the
\* filter and the early process.exit(0)
ResumeWith(ids) ==
    LET remaining == ResumeFilter(allFilterValues, ids)
    IN  /\ processedIds' = ids
        /\ filterValues' = remaining
        /\ pc' = IF Cardinality(ids) > 0 /\ Len(remaining) = 0
                 THEN "done" ELSE "auth"

\* processedIds = await getProcessedRecordIds(outputFile), read to its 'end';
\* the filter; the early process.exit(0)
LoadResume ==
    /\ pc = "resume"
    /\ ResumeWith(getProcessedRecordIds(out.exists, out.lines))
    /\ UNCHANGED <<envVars, out, run, filterField, allFilterValues, fieldMetadata,
                   records, i, results, queryVars, obsVars>>
    /\ UNCHANGED <<callVars, combineVars, sendVars, inputTable, chunkSize, authVars, summaryVars>>

\* getProcessedRecordIds when the parser stream raises 'error' after n lines
\* of the artifact: the handler resolves with the set as filled so far
LoadResumeParseError ==
    /\ pc = "resume"
    /\ out.exists
    /\ \E n \in 0..Len(out.lines) :
         ResumeWith(getProcessedRecordIds(TRUE, SubSeq(out.lines, 1, n)))
    /\ resumeError' = "parse"
    /\ UNCHANGED <<envVars, out, run, filterField, allFilterValues, fieldMetadata,
                   records, i, results, queryVars, obsVars>>
    /\ UNCHANGED <<pendingCalls, callLog, error, failure, combineVars, sendVars, inputTable, chunkSize, authVars, summaryVars>>

\* getProcessedRecordIds when the file stream raises 'error' (the artifact
\* cannot be opened or read): the only 'error' listener is on the parser the
\* file is piped into, so the event is unhandled and ends the process with a
\* non-zero status
LoadResumeReadError ==
    /\ pc = "resume"
    /\ out.exists
    /\ resumeError' = "read"
    /\ error' = S("EACCES: permission denied, open")
    /\ pc' = "fatal"
    /\ UNCHANGED <<envVars, out, run, mainVars, queryVars, obsVars>>
    /\ UNCHANGED <<pendingCalls, callLog, failure, combineVars, sendVars, inputTable, chunkSize, authVars, summaryVars>>

\* await authorize(): the call is made
AuthCall ==
    /\ pc = "auth"
    /\ pendingCalls' = Append(pendingCalls, "auth")
    /\ callLog' = Append(callLog, "auth")
    /\ pc' = "authwait"
    /\ UNCHANGED <<envVars, out, run, mainVars, queryVars, obsVars>>
    /\ UNCHANGED <<error, failure, resumeError, combineVars, sendVars, inputTable, chunkSize, authVars, summaryVars>>

\* const { accessToken, instanceUrl } = await authorize()
AuthOk ==
    /\ pc = "authwait"
    /\ pendingCalls' = WithoutCall(pendingCalls, "auth")
    /\ pc' = "metadata"
    /\ UNCHANGED <<envVars, out, run, mainVars, queryVars, obsVars>>
    /\ UNCHANGED <<callLog, error, failure, resumeError, combineVars, sendVars, inputTable, chunkSize, authVars, summaryVars>>

\* an authorize whose failure is logged and passed over
AuthFailIgnored ==
    /\ pc = "authwait"
    /\ pendingCalls' = WithoutCall(pendingCalls, "auth")
    /\ failure' = [kind |-> "auth", chunk |-> 0, page |-> 0]
    /\ pc' = "metadata"
    /\ UNCHANGED <<envVars, out, run, mainVars, queryVars, obsVars>>
    /\ UNCHANGED <<callLog, error, resumeError, combineVars, sendVars, inputTable, chunkSize, authVars, summaryVars>>

\* authorize fails: process.exit(1) in its catch (a missing environment
\* variable throws to main's catch, which exits with 1 as well)
AuthFail ==
    /\ pc = "authwait"
    /\ pendingCalls' = WithoutCall(pendingCalls, "auth")
    /\ failure' = [kind |-> "auth", chunk |-> 0, page |-> 0]
    /\ \E message \in AuthErrors : error' = message
    /\ pc' = "fatal"
    /\ UNCHANGED <<envVars, out, run, mainVars, queryVars, obsVars>>
    /\ UNCHANGED <<callLog, resumeError, combineVars, sendVars, inputTable, chunkSize, authVars, summaryVars>>

\* await getFieldMetadata(...): the describe request is issued
MetadataCall ==
    /\ pc = "metadata"
    /\ pendingCalls' = Append(pendingCalls, "metadata")
    /\ callLog' = Append(callLog, "metadata")
    /\ pc' = "metawait"
    /\ UNCHANGED <<envVars, out, run, mainVars, queryVars, obsVars>>
    /\ UNCHANGED <<error, failure, resumeError, combineVars, sendVars, inputTable, chunkSize, authVars, summaryVars>>

\* fieldMetadata = await getFieldMetadata(...)
MetadataOk ==
    /\ pc = "metawait"
    /\ pendingCalls' = WithoutCall(pendingCalls, "metadata")
    /\ fieldMetadata' = {e \in DescribeFields : e.name \in SeqToSet(fields)}
    /\ pc' = "query"
    /\ UNCHANGED <<envVars, out, run, filterField, allFilterValues, processedIds,
                   filterValues, records, i, results, queryVars, obsVars>>
    /\ UNCHANGED <<callLog, error, failure, resumeError, combineVars, sendVars, inputTable, chunkSize, authVars, summaryVars>>

\* getFieldMetadata throws; main's catch: process.exit(1)
MetadataFail ==
    /\ pc = "metawait"
    /\ pendingCalls' = WithoutCall(pendingCalls, "metadata")
    /\ failure' = [kind |-> "metadata", chunk |-> 0, page |-> 0]
    /\ \E message \in MetadataErrors : error' = message
    /\ pc' = "fatal"
    /\ UNCHANGED <<envVars, out, run, mainVars, queryVars, obsVars>>
    /\ UNCHANGED <<callLog, resumeError, combineVars, sendVars, inputTable, chunkSize, authVars, summaryVars>>

\* ------------------------------------------------------------------------
\* querySalesforceRecords and querySalesforceRecordsChunk
\* ------------------------------------------------------------------------

\* querySalesforceRecords is entered: the chunks are planned and the first
\* chunk call initialises its locals
QueryStart ==
    /\ pc = "query"
    /\ chunks' = PlanChunks(filterValues)
    /\ ci' = 1
    /\ allRecords' = <<>>
    /\ chunkRecords' = <<>>
    /\ pageCount' = 0
    /\ nextRecordsUrl' = <<>>
    /\ isFirstQuery' = TRUE
    /\ pc' = "page"
    /\ UNCHANGED <<envVars, out, run, mainVars, inflight, obsVars>>
    /\ UNCHANGED <<callVars, combineVars, sendVars, inputTable, chunkSize, authVars, summaryVars>>

\* a page loop that sends the filter query again for every page
PageRequestAlwaysQuery ==
    /\ pc = "page"
    /\ pageCount' = pageCount + 1
    /\ inflight' = [kind |-> "query", chunk |-> ci, page |-> 1,
                    size |-> Len(chunks[ci])]
    /\ isFirstQuery' = FALSE
    /\ queried' = queried \cup SeqToSet(chunks[ci])
    /\ pageLog' = Append(pageLog, inflight')
    /\ pc' = "pagewait"
    /\ pendingCalls' = Append(pendingCalls, "query")
    /\ callLog' = Append(callLog, "query")
    /\ UNCHANGED <<envVars, out, run, mainVars, chunks, ci, allRecords, chunkRecords,
                   nextRecordsUrl, outAtStart, sent, appended, waits, replies,
                   everAppended, prevEnd>>
    /\ UNCHANGED <<error, failure, resumeError, combineVars, sendVars, inputTable, chunkSize, authVars, summaryVars>>

\* do { pageCount++; ... axios.get(url, ...) : one page request is issued
PageRequest ==
    /\ pc = "page"
    /\ pageCount' = pageCount + 1
    /\ inflight' = IF isFirstQuery
                   THEN [kind |-> "query", chunk |-> ci, page |-> 1,
                         size |-> Len(chunks[ci])]
                   ELSE [kind |-> "next", chunk |-> nextRecordsUrl[1].chunk,
                         page |-> nextRecordsUrl[1].page, size |-> 0]
    /\ isFirstQuery' = FALSE
    /\ queried' = IF isFirstQuery THEN queried \cup SeqToSet(chunks[ci]) ELSE queried
    /\ pageLog' = Append(pageLog, inflight')
    /\ pc' = "pagewait"
    /\ pendingCalls' = Append(pendingCalls, "query")
    /\ callLog' = Append(callLog, "query")
    /\ UNCHANGED <<envVars, out, run, mainVars, chunks, ci, allRecords, chunkRecords,
                   nextRecordsUrl, outAtStart, sent, appended, waits, replies,
                   everAppended, prevEnd>>
    /\ UNCHANGED <<error, failure, resumeError, combineVars, sendVars, inputTable, chunkSize, authVars, summaryVars>>

\* data.nextRecordsUrl of the answer to a page request: a token that leads to
\* the next page of the same result set, or none
TokenAfter(req) ==
    IF req.page <= storeTokens
    THEN <<[chunk |-> req.chunk, page |-> req.page + 1]>>
    ELSE <<>>

\* what the store answers to a page request
StoreAnswer(req) ==
    LET all == Matching(store, filterField, chunks[req.chunk])
    IN  [records |-> PageRecords(all, storeTokens, req.page),
         nextRecordsUrl |-> TokenAfter(req)]

\* a safety check that throws where the program breaks out of the loop
PageResponseLimitThrows ==
    /\ pc = "pagewait"
    /\ LET data == StoreAnswer(inflight)
           got == Accumulate(chunkRecords, data.records)
           limit == PageLimitReached(pageCount)
           more == data.nextRecordsUrl # <<>> /\ ~limit
           total == Accumulate(allRecords, got)
       IN  /\ nextRecordsUrl' = data.nextRecordsUrl
           /\ chunkRecords' = got
           /\ allRecords' = IF more \/ limit THEN allRecords ELSE total
           /\ pc' = IF limit THEN "fatal"
                    ELSE IF more THEN "page"
                    ELSE IF ci < Len(chunks) THEN "delay" ELSE "loop"
           /\ records' = IF ~more /\ ~limit /\ ci >= Len(chunks) THEN total ELSE records
           /\ i' = IF ~more /\ ~limit /\ ci >= Len(chunks) THEN 1 ELSE i
           /\ error' = IF limit THEN S("Reached maximum page limit") ELSE error
    /\ inflight' = NoRequest
    /\ pendingCalls' = WithoutCall(pendingCalls, "query")
    /\ UNCHANGED <<envVars, out, run, filterField, allFilterValues, processedIds,
                   filterValues, fieldMetadata, results, chunks, ci, pageCount,
                   isFirstQuery, obsVars>>
    /\ UNCHANGED <<callLog, failure, resumeError, combineVars, sendVars, inputTable, chunkSize, authVars, summaryVars>>

\* a query that hands the records of each chunk to main as soon as the chunk
\* has returned
PageResponseStreams ==
    /\ pc = "pagewait"
    /\ LET data == StoreAnswer(inflight)
           got == Accumulate(chunkRecords, data.records)
           more == data.nextRecordsUrl # <<>> /\ ~PageLimitReached(pageCount)
           total == Accumulate(allRecords, got)
       IN  /\ nextRecordsUrl' = data.nextRecordsUrl
           /\ chunkRecords' = got
           /\ allRecords' = IF more THEN allRecords ELSE total
           /\ pc' = IF more THEN "page" ELSE "loop"
           /\ records' = IF ~more THEN total ELSE records
           /\ i' = IF ~more THEN 1 ELSE i
    /\ inflight' = NoRequest
    /\ pendingCalls' = WithoutCall(pendingCalls, "query")
    /\ UNCHANGED <<envVars, out, run, filterField, allFilterValues, processedIds,
                   filterValues, fieldMetadata, results, chunks, ci, pageCount,
                   isFirstQuery, obsVars>>
    /\ UNCHANGED <<callLog, error, failure, resumeError, combineVars, sendVars, inputTable, chunkSize, authVars, summaryVars>>

\* the response of a page request arrives: accumulate, then loop, or finish
\* the chunk (no token, or the page limit), and with it wait for the next
\* chunk or return all records to main
PageResponse ==
    /\ pc = "pagewait"
    /\ LET data == StoreAnswer(inflight)
           got == Accumulate(chunkRecords, data.records)
           more == data.nextRecordsUrl # <<>> /\ ~PageLimitReached(pageCount)
           total == Accumulate(allRecords, got)
       IN  /\ nextRecordsUrl' = data.nextRecordsUrl
           /\ chunkRecords' = got
           /\ allRecords' = IF more THEN allRecords ELSE total
           /\ pc' = IF more THEN "page"
                    ELSE IF ci < Len(chunks) THEN "delay" ELSE "loop"
           /\ records' = IF ~more /\ ci >= Len(chunks) THEN total ELSE records
           /\ i' = IF ~more /\ ci >= Len(chunks) THEN 1 ELSE i
    /\ inflight' = NoRequest
    /\ pendingCalls' = WithoutCall(pendingCalls, "query")
    /\ UNCHANGED <<envVars, out, run, filterField, allFilterValues, processedIds,
                   filterValues, fieldMetadata, results, chunks, ci, pageCount,
                   isFirstQuery, obsVars>>
    /\ UNCHANGED <<callLog, error, failure, resumeError, combineVars, sendVars, inputTable, chunkSize, authVars, summaryVars>>

\* a chunk loop that logs the failure of a chunk and goes on without it
PageFailSkipsChunk ==
    /\ pc = "pagewait"
    /\ inflight' = NoRequest
    /\ pendingCalls' = WithoutCall(pendingCalls, "query")
    /\ failure' = [kind |-> "query", chunk |-> inflight.chunk, page |-> inflight.page]
    /\ pc' = IF ci < Len(chunks) THEN "delay" ELSE "loop"
    /\ records' = IF ci >= Len(chunks) THEN allRecords ELSE records
    /\ i' = IF ci >= Len(chunks) THEN 1 ELSE i
    /\ UNCHANGED <<envVars, out, run, filterField, allFilterValues, processedIds,
                   filterValues, fieldMetadata, results, chunks, ci, allRecords,
                   chunkRecords, pageCount, nextRecordsUrl, isFirstQuery, obsVars>>
    /\ UNCHANGED <<callLog, error, resumeError, combineVars, sendVars, inputTable, chunkSize, authVars, summaryVars>>

\* a catch that writes an error row for the failed chunk before it rethrows
PageFailWritesRow ==
    /\ pc = "pagewait"
    /\ inflight' = NoRequest
    /\ pendingCalls' = WithoutCall(pendingCalls, "query")
    /\ failure' = [kind |-> "query", chunk |-> inflight.chunk, page |-> inflight.page]
    /\ \E message \in ChunkErrors(ci) :
         /\ error' = message
         /\ out' = appendResultsToCSV(out,
                      <<[recordId |-> <<>>, fv |-> <<>>, originalText |-> <<>>,
                         response |-> S("Error: ") \o message]>>, filterField, TRUE)
    /\ pc' = "fatal"
    /\ UNCHANGED <<envVars, run, mainVars, chunks, ci, allRecords, chunkRecords,
                   pageCount, nextRecordsUrl, isFirstQuery, obsVars>>
    /\ UNCHANGED <<callLog, resumeError, combineVars, sendVars, inputTable, chunkSize, authVars, summaryVars>>

\* axios.get rejects: the chunk's catch throws an Error that names chunkIndex;
\* it passes through querySalesforceRecords to main's catch: process.exit(1)
PageFail ==
    /\ pc = "pagewait"
    /\ inflight' = NoRequest
    /\ pendingCalls' = WithoutCall(pendingCalls, "query")
    /\ failure' = [kind |-> "query", chunk |-> inflight.chunk, page |-> inflight.page]
    /\ \E message \in ChunkErrors(ci) : error' = message
    /\ pc' = "fatal"
    /\ UNCHANGED <<envVars, out, run, mainVars, chunks, ci, allRecords, chunkRecords,
                   pageCount, nextRecordsUrl, isFirstQuery, obsVars>>
    /\ UNCHANGED <<callLog, resumeError, combineVars, sendVars, inputTable, chunkSize, authVars, summaryVars>>

\* a chunk loop that starts the next chunk call without waiting
ChunkNoDelay ==
    /\ pc = "delay"
    /\ ci' = ci + 1
    /\ chunkRecords' = <<>>
    /\ pageCount' = 0
    /\ nextRecordsUrl' = <<>>
    /\ isFirstQuery' = TRUE
    /\ pc' = "page"
    /\ UNCHANGED <<envVars, out, run, mainVars, chunks, allRecords, inflight, obsVars>>
    /\ UNCHANGED <<callVars, combineVars, sendVars, inputTable, chunkSize, authVars, summaryVars>>

\* the one-second timer between two chunks fires: the next chunk call starts
ChunkDelay ==
    /\ pc = "delay"
    /\ waits' = waits + 1
    /\ ci' = ci + 1
    /\ chunkRecords' = <<>>
    /\ pageCount' = 0
    /\ nextRecordsUrl' = <<>>
    /\ isFirstQuery' = TRUE
    /\ pc' = "page"
    /\ UNCHANGED <<envVars, out, run, mainVars, chunks, allRecords, inflight,
                   outAtStart, sent, queried, appended, pageLog, replies,
                   everAppended, prevEnd>>
    /\ UNCHANGED <<callVars, combineVars, sendVars, inputTable, chunkSize, authVars, summaryVars>>

\* ------------------------------------------------------------------------
\* main: the per-record loop
\* ------------------------------------------------------------------------

\* combinedText of the record under the loop index
CombinedText == combineFieldsWithLabels(records[i], fields, fieldMetadata)

\* a loop that stops one record early
LoopDoneEarly ==
    /\ pc = "loop"
    /\ i >= Len(records)
    /\ pc' = "done"
    /\ UNCHANGED <<envVars, out, run, mainVars, queryVars, obsVars>>
    /\ UNCHANGED <<callVars, combineVars, sendVars, inputTable, chunkSize, authVars, summaryVars>>

\* i reaches records.length: "Job completed", main returns (exit status 0)
LoopDone ==
    /\ pc = "loop"
    /\ i > Len(records)
    /\ pc' = "done"
    /\ UNCHANGED <<envVars, out, run, mainVars, queryVars, obsVars>>
    /\ UNCHANGED <<callVars, combineVars, sendVars, inputTable, chunkSize, authVars, summaryVars>>

\* a loop whose else branch does not reach the i++ of the for statement
SkipRecordStuck ==
    /\ pc = "loop"
    /\ i <= Len(records)
    /\ Trim(CombinedText) = <<>>
    /\ UNCHANGED vars

\* combinedText.trim() is empty: the else branch, nothing but a log line
SkipRecord ==
    /\ pc = "loop"
    /\ i <= Len(records)
    /\ Trim(CombinedText) = <<>>
    /\ i' = i + 1
    /\ UNCHANGED <<envVars, out, pc, run, filterField, allFilterValues, processedIds,
                   filterValues, fieldMetadata, records, results, queryVars, obsVars>>
    /\ UNCHANGED <<callVars, combineVars, sendVars, inputTable, chunkSize, authVars, summaryVars>>

\* a loop that issues the request and goes on without awaiting it
CompletionCallNoAwait ==
    /\ pc = "loop"
    /\ i <= Len(records)
    /\ Trim(CombinedText) # <<>>
    /\ sent' = Append(sent, [recordId |-> records[i].Id, text |-> CombinedText])
    /\ pendingCalls' = Append(pendingCalls, "completion")
    /\ callLog' = Append(callLog, "completion")
    /\ i' = i + 1
    /\ UNCHANGED <<envVars, out, pc, run, filterField, allFilterValues, processedIds,
                   filterValues, fieldMetadata, records, results, queryVars,
                   outAtStart, queried, appended, pageLog, waits, replies,
                   everAppended, prevEnd>>
    /\ UNCHANGED <<error, failure, resumeError, combineVars, sendVars, inputTable, chunkSize, authVars, summaryVars>>

\* await sendToLMStudio(prompt, combinedText): the request is issued
CompletionCall ==
    /\ pc = "loop"
    /\ i <= Len(records)
    /\ Trim(CombinedText) # <<>>
    /\ sent' = Append(sent, [recordId |-> records[i].Id, text |-> CombinedText])
    /\ pendingCalls' = Append(pendingCalls, "completion")
    /\ callLog' = Append(callLog, "completion")
    /\ pc' = "complete"
    /\ UNCHANGED <<envVars, out, run, mainVars, queryVars, outAtStart, queried,
                   appended, pageLog, waits, replies, everAppended, prevEnd>>
    /\ UNCHANGED <<error, failure, resumeError, combineVars, sendVars, inputTable, chunkSize, authVars, summaryVars>>

\* the completion text the service returns for a text
Completion(txt) == S("ECHO:") \o txt

\* error.message of a failed completion call
CompletionErrors == {S("LM Studio API error: 500")}

\* the completion returns: result is built and pushed; the append is started
CompletionOk ==
    /\ pc = "complete"
    /\ results' = Append(results,
                    SuccessResult(records[i], filterField, CombinedText,
                                  Completion(CombinedText)))
    /\ replies' = Append(replies, [ok |-> TRUE, body |-> Completion(CombinedText)])
    /\ pendingCalls' = WithoutCall(pendingCalls, "completion")
    /\ pc' = "append"
    /\ UNCHANGED <<envVars, out, run, filterField, allFilterValues, processedIds,
                   filterValues, fieldMetadata, records, i, queryVars, outAtStart,
                   sent, queried, appended, pageLog, waits, everAppended, prevEnd>>
    /\ UNCHANGED <<callLog, error, failure, resumeError, combineVars, sendVars, inputTable, chunkSize, authVars, summaryVars>>

\* a loop without the per-record catch: the error reaches main's catch
CompletionFailAborts ==
    /\ pc = "complete"
    /\ pendingCalls' = WithoutCall(pendingCalls, "completion")
    /\ pc' = "fatal"
    /\ UNCHANGED <<envVars, out, run, mainVars, queryVars, obsVars>>
    /\ UNCHANGED <<callLog, error, failure, resumeError, combineVars, sendVars, inputTable, chunkSize, authVars, summaryVars>>

\* the completion call throws (the service has failures left to give): the
\* catch builds and pushes errorResult; the append is started
CompletionFail ==
    /\ pc = "complete"
    /\ serviceFailures < MaxFailures
    /\ serviceFailures' = serviceFailures + 1
    /\ \E message \in CompletionErrors :
         /\ results' = Append(results,
                         ErrorResult(records[i], filterField, CombinedText, message))
         /\ replies' = Append(replies, [ok |-> FALSE, body |-> message])
    /\ pendingCalls' = WithoutCall(pendingCalls, "completion")
    /\ pc' = "append"
    /\ UNCHANGED <<csvHeader, csvRows, store, storeTokens, out, run, filterField, allFilterValues, processedIds,
                   filterValues, fieldMetadata, records, i, queryVars, outAtStart,
                   sent, queried, appended, pageLog, waits, everAppended, prevEnd>>
    /\ UNCHANGED <<callLog, error, failure, resumeError, combineVars, sendVars, inputTable, chunkSize, authVars, summaryVars>>

\* a loop that keeps the result in memory and writes nothing until the end
AppendResultBatched ==
    /\ pc = "append"
    /\ i' = i + 1
    /\ pc' = "loop"
    /\ UNCHANGED <<envVars, out, run, filterField, allFilterValues, processedIds,
                   filterValues, fieldMetadata, records, results, queryVars, obsVars>>
    /\ UNCHANGED <<callVars, combineVars, sendVars, inputTable, chunkSize, authVars, summaryVars>>

\* await appendResultsToCSV([result], outputFile, filterField, true) completes;
\* the loop goes on with the next record
AppendResult ==
    /\ pc = "append"
    /\ out' = appendResultsToCSV(out, <<results[Len(results)]>>, filterField, TRUE)
    /\ appended' = Append(appended, results[Len(results)])
    /\ everAppended' = Append(everAppended, results[Len(results)])
    /\ i' = i + 1
    /\ pc' = "loop"
    /\ UNCHANGED <<envVars, run, filterField, allFilterValues, processedIds,
                   filterValues, fieldMetadata, records, results, queryVars,
                   outAtStart, sent, queried, pageLog, waits, replies, prevEnd>>
    /\ UNCHANGED <<callVars, combineVars, sendVars, inputTable, chunkSize, authVars, summaryVars>>

\* error.message of a rejected csvWriter.writeRecords
AppendErrors == {S("EACCES: permission denied")}

\* the record loop is in its catch block: the result at hand is errorResult
InCatch == results # <<>> /\ results[Len(results)].response[1] = "Error: "

\* await appendResultsToCSV(...) rejects and nothing is written. In the try
\* block the rejection enters the catch, which builds and pushes errorResult
\* and starts the append of it; in the catch block it reaches main's catch:
\* process.exit(1)
AppendFail ==
    /\ pc = "append"
    /\ \E message \in AppendErrors :
         IF InCatch
         THEN /\ pc' = "fatal"
              /\ error' = message
              /\ results' = results
         ELSE /\ pc' = "append"
              /\ error' = error
              /\ results' = Append(results,
                              ErrorResult(records[i], filterField, CombinedText, message))
    /\ UNCHANGED <<envVars, out, run, filterField, allFilterValues, processedIds,
                   filterValues, fieldMetadata, records, i, queryVars, obsVars>>
    /\ UNCHANGED <<pendingCalls, callLog, failure, resumeError, combineVars, sendVars,
                   inputTable, chunkSize, authVars, summaryVars>>

\* ------------------------------------------------------------------------
\* The process
\* ------------------------------------------------------------------------

\* a process that ends or starts anew holds none of main's memory
FreshLocals ==
    /\ filterField' = <<>>
    /\ allFilterValues' = <<>>
    /\ processedIds' = {}
    /\ filterValues' = <<>>
    /\ fieldMetadata' = {}
    /\ records' = <<>>
    /\ i' = 0
    /\ results' = <<>>
    /\ chunks' = <<>>
    /\ ci' = 0
    /\ allRecords' = <<>>
    /\ chunkRecords' = <<>>
    /\ pageCount' = 0
    /\ nextRecordsUrl' = <<>>
    /\ isFirstQuery' = TRUE
    /\ inflight' = NoRequest
    /\ sent' = <<>>
    /\ queried' = {}
    /\ appended' = <<>>
    /\ pageLog' = <<>>
    /\ waits' = 0
    /\ replies' = <<>>
    /\ pendingCalls' = <<>>
    /\ callLog' = <<>>
    /\ error' = <<>>
    /\ failure' = NoFailure
    /\ resumeError' = "none"

\* the process is stopped from outside (Ctrl+C) between two steps: its memory
\* is gone, the output artifact stays as it is
Interrupt ==
    /\ pc \notin Terminal
    /\ pc' = "killed"
    /\ FreshLocals
    /\ UNCHANGED <<envVars, out, run, outAtStart, everAppended, prevEnd>>
    /\ UNCHANGED <<combineVars, sendVars, inputTable, chunkSize, authVars, summaryVars>>

\* the same command is started again: same input, same output path
Restart ==
    /\ pc \in Terminal
    /\ run < MaxRuns
    /\ run' = run + 1
    /\ prevEnd' = IF pc = "killed" THEN "killed" ELSE "exited"
    /\ outAtStart' = out
    /\ pc' = "start"
    /\ FreshLocals
    /\ UNCHANGED <<envVars, out, everAppended>>
    /\ UNCHANGED <<combineVars, sendVars, inputTable, chunkSize, authVars, summaryVars>>

Next ==
    \/ ReadCsv
    \/ LoadResume
    \/ LoadResumeParseError
    \/ LoadResumeReadError
    \/ AuthCall
    \/ AuthOk
    \/ AuthFail
    \/ MetadataCall
    \/ MetadataOk
    \/ MetadataFail
    \/ QueryStart
    \/ PageRequest
    \/ PageResponse
    \/ PageFail
    \/ ChunkDelay
    \/ LoopDone
    \/ SkipRecord
    \/ CompletionCall
    \/ CompletionOk
    \/ CompletionFail
    \/ AppendResult
    \/ Interrupt
    \/ Restart

Spec == Init /\ [][Next]_vars

\* ------------------------------------------------------------------------
\* querySalesforceRecords on its own
\* ------------------------------------------------------------------------

\* querySalesforceRecords is called with k filter values; the store hands out
\* few tokens for every k, and up to MaxTokens tokens for one and two chunks
InitQuery ==
    /\ AuthIdle
    /\ SummaryIdle
    /\ csvHeader = S("Ext__c")
    /\ csvRows = <<>>
    /\ store = RecordUniverse
    /\ serviceFailures = 0
    /\ \E k \in 0..MaxK :
         /\ filterValues = KValues(k)
         /\ \/ storeTokens \in 0..MaxRunTokens
            \/ k \in {1, CHUNK_SIZE + 1} /\ storeTokens \in 0..MaxTokens
    /\ out = [exists |-> FALSE, lines |-> <<>>]
    /\ outAtStart = [exists |-> FALSE, lines |-> <<>>]
    /\ pc = "query"
    /\ run = 1
    /\ prevEnd = "none"
    /\ everAppended = <<>>
    /\ filterField = S("Ext__c")
    /\ allFilterValues = filterValues
    /\ processedIds = {}
    /\ fieldMetadata = {}
    /\ records = <<>>
    /\ i = 0
    /\ results = <<>>
    /\ chunks = <<>>
    /\ ci = 0
    /\ allRecords = <<>>
    /\ chunkRecords = <<>>
    /\ pageCount = 0
    /\ nextRecordsUrl = <<>>
    /\ isFirstQuery = TRUE
    /\ inflight = NoRequest
    /\ sent = <<>>
    /\ queried = {}
    /\ appended = <<>>
    /\ pageLog = <<>>
    /\ waits = 0
    /\ replies = <<>>
    /\ pendingCalls = <<>>
    /\ callLog = <<>>
    /\ error = <<>>
    /\ failure = NoFailure
    /\ resumeError = "none"
    /\ CombineIdle
    /\ SendIdle
    /\ chunkSize = CHUNK_SIZE
    /\ inputTable = NoTable

NextQuery ==
    \/ QueryStart
    \/ PageRequest
    \/ PageResponse
    \/ PageFail
    \/ ChunkDelay

SpecQuery == InitQuery /\ [][NextQuery]_vars

\* ------------------------------------------------------------------------
\* One run of main, every remote call answered sooner or later
\* ------------------------------------------------------------------------

\* the artifact a previous run left after appending the outcome of record a
PriorArtifact(filterFld) ==
    LET rec == CHOOSE r \in RecordUniverse : r.Id = S("a")
        combined == combineFieldsWithLabels(rec, fields, DescribeFields)
    IN  appendResultsToCSV([exists |-> FALSE, lines |-> <<>>],
                           <<SuccessResult(rec, filterFld, combined, Completion(combined))>>,
                           filterFld, TRUE)

\* one invocation of main.  A small input meets an output artifact that is
\* absent or was left by a previous run; an input of two chunks, and a store
\* that hands out more tokens than main ever asks for, meet an absent one
InitRun ==
    /\ AuthIdle
    /\ SummaryIdle
    /\ \/ /\ csvHeader \in Headers
          /\ csvRows \in {r \in SeqsUpTo(RowCells, MaxRows) :
                             Len(r) <= 1 \/ r = <<S("a"), S("b")>>}
          /\ out \in {[exists |-> FALSE, lines |-> <<>>],
                      PriorArtifact(readCsvHeader(csvHeader))}
          /\ storeTokens \in 0..MaxRunTokens
       \/ /\ csvHeader = S("Id")
          /\ csvRows = BigRows
          /\ out = [exists |-> FALSE, lines |-> <<>>]
          /\ storeTokens = 0
       \/ /\ csvHeader \in Headers
          /\ csvRows = <<S("a")>>
          /\ out = [exists |-> FALSE, lines |-> <<>>]
          /\ storeTokens = MaxTokens
       \/ /\ csvHeader = Absent
          /\ csvRows = <<>>
          /\ out = [exists |-> FALSE, lines |-> <<>>]
          /\ storeTokens \in 0..MaxRunTokens
    /\ store = RecordUniverse
    /\ serviceFailures = 0
    /\ outAtStart = out
    /\ pc = "start"
    /\ run = 1
    /\ prevEnd = "none"
    /\ everAppended = <<>>
    /\ LocalsInit
    /\ CombineIdle
    /\ SendIdle
    /\ chunkSize = CHUNK_SIZE
    /\ inputTable = NoTable

NextRun ==
    \/ ReadCsv
    \/ LoadResume
    \/ LoadResumeParseError
    \/ LoadResumeReadError
    \/ AuthCall
    \/ AuthOk
    \/ AuthFail
    \/ MetadataCall
    \/ MetadataOk
    \/ MetadataFail
    \/ QueryStart
    \/ PageRequest
    \/ PageResponse
    \/ PageFail
    \/ ChunkDelay
    \/ LoopDone
    \/ SkipRecord
    \/ CompletionCall
    \/ CompletionOk
    \/ CompletionFail
    \/ AppendResult

\* the event loop runs every continuation that is ready, and every remote
\* call returns or fails: a step that can be taken is taken
SpecRun == InitRun /\ [][NextRun]_vars /\ WF_vars(NextRun)

\* ------------------------------------------------------------------------
\* combineFieldsWithLabels on its own
\* ------------------------------------------------------------------------

\* values of a record's field: absent, empty, white space, text, padded text
FieldValues == {Absent, <<>>, <<" ">>, S("x"), <<" ", "y", " ">>}

\* Q3 is a field no record has
FieldNames == {S("Q1"), S("Q2"), S("Q3")}

LabelEntries ==
    { [name |-> S("Q1"), label |-> S("Question 1")],
      [name |-> S("Q2"), label |-> S("Question 2")] }

InitCombine ==
    /\ AuthIdle
    /\ SummaryIdle
    /\ combineRecord \in [Id : {S("a")}, Ext__c : {S("b")}, Q1 : FieldValues, Q2 : FieldValues]
    /\ combineFields \in SeqsUpTo(FieldNames, MaxFields)
    /\ combineMetadata \in SUBSET LabelEntries
    /\ combineResult = Absent
    /\ csvHeader = S("Ext__c")
    /\ csvRows = <<>>
    /\ store = RecordUniverse
    /\ serviceFailures = 0
    /\ storeTokens = 0
    /\ out = [exists |-> FALSE, lines |-> <<>>]
    /\ outAtStart = [exists |-> FALSE, lines |-> <<>>]
    /\ pc = "combine"
    /\ run = 1
    /\ prevEnd = "none"
    /\ everAppended = <<>>
    /\ LocalsInit
    /\ SendIdle
    /\ chunkSize = CHUNK_SIZE
    /\ inputTable = NoTable

\* combinedText = combineFieldsWithLabels(record, fields, fieldMetadata)
Combine ==
    /\ pc = "combine"
    /\ combineResult' = combineFieldsWithLabels(combineRecord, combineFields, combineMetadata)
    /\ pc' = "combined"
    /\ UNCHANGED <<envVars, out, run, mainVars, queryVars, obsVars, callVars,
                   combineRecord, combineFields, combineMetadata, sendVars, inputTable, chunkSize, authVars, summaryVars>>

NextCombine == Combine

SpecCombine == InitCombine /\ [][NextCombine]_vars

\* ------------------------------------------------------------------------
\* readCsvFile on its own
\* ------------------------------------------------------------------------

\* header rows: one column; a padded first name and a second column; the
\* first name used again for the second column; a second column named 7
TableHeaders ==
    { <<S("Id")>>,
      <<<<BOM, " ", "Ext__c", " ">>, S("Name")>>,
      <<S("Id"), S("Id")>>,
      <<S("Id"), S("7")>> }

\* data rows: one cell; two cells; a padded first cell; a blank first cell;
\* an empty first cell
TableRows ==
    { <<S("a")>>,
      <<S("a"), S("b")>>,
      <<<<" ", "r1", " ">>, S("c")>>,
      <<<<" ">>, S("b")>>,
      <<<<>>, S("c")>> }

InitReadCsv ==
    /\ AuthIdle
    /\ SummaryIdle
    /\ inputTable \in [header : TableHeaders, rows : SeqsUpTo(TableRows, MaxRows)]
    /\ \A j \in 1..Len(inputTable.rows) :
          Len(inputTable.rows[j]) <= Len(inputTable.header)
    /\ csvHeader = S("Ext__c")
    /\ csvRows = <<>>
    /\ store = RecordUniverse
    /\ serviceFailures = 0
    /\ storeTokens = 0
    /\ out = [exists |-> FALSE, lines |-> <<>>]
    /\ outAtStart = [exists |-> FALSE, lines |-> <<>>]
    /\ pc = "read"
    /\ run = 1
    /\ prevEnd = "none"
    /\ everAppended = <<>>
    /\ LocalsInit
    /\ CombineIdle
    /\ SendIdle
    /\ chunkSize = CHUNK_SIZE

\* { filterField, filterValues } = await readCsvFile(csvFile), read to 'end'
ReadCsvFile ==
    /\ pc = "read"
    /\ filterField' = readCsvFile(inputTable).filterField
    /\ allFilterValues' = readCsvFile(inputTable).filterValues
    /\ pc' = "readdone"
    /\ UNCHANGED <<envVars, out, run, processedIds, filterValues, fieldMetadata,
                   records, i, results, queryVars, obsVars>>
    /\ UNCHANGED <<callVars, combineVars, sendVars, inputTable, chunkSize, authVars, summaryVars>>

NextReadCsv == ReadCsvFile

SpecReadCsv == InitReadCsv /\ [][NextReadCsv]_vars

\* ------------------------------------------------------------------------
\* getProcessedRecordIds on its own
\* ------------------------------------------------------------------------

\* header rows of an output artifact found at the output path: as this
\* program writes it (first two columns); the two key columns the other way
\* round; only the secondary key column, second; no key column; no key column
\* and a second column named 7; the first name used again
ArtifactHeaders ==
    { <<S("Salesforce Record ID"), S("Ext__c")>>,
      <<S("recordId"), S("Salesforce Record ID")>>,
      <<S("Name"), S("recordId")>>,
      <<S("Name"), S("Ext__c")>>,
      <<S("Name"), S("7")>>,
      <<S("Name"), S("Name")>> }

\* cells of an artifact row: empty, blank, text, padded text
ArtifactCells == {<<>>, <<" ">>, S("a"), <<" ", "r1", " ">>}

ArtifactRows == {<<x, y>> : x \in ArtifactCells, y \in ArtifactCells \ {<<" ">>}}

InitResumeKeys ==
    /\ AuthIdle
    /\ SummaryIdle
    /\ inputTable \in [header : ArtifactHeaders, rows : SeqsUpTo(ArtifactRows, MaxRows)]
    /\ csvHeader = S("Ext__c")
    /\ csvRows = <<>>
    /\ store = RecordUniverse
    /\ serviceFailures = 0
    /\ storeTokens = 0
    /\ out = [exists |-> FALSE, lines |-> <<>>]
    /\ outAtStart = [exists |-> FALSE, lines |-> <<>>]
    /\ pc = "keys"
    /\ run = 1
    /\ prevEnd = "none"
    /\ everAppended = <<>>
    /\ LocalsInit
    /\ CombineIdle
    /\ SendIdle
    /\ chunkSize = CHUNK_SIZE

\* processedIds = await getProcessedRecordIds(outputFile), read to its 'end'
ReadResumeKeys ==
    /\ pc = "keys"
    /\ processedIds' = getProcessedRecordIds(TRUE, <<inputTable.header>> \o inputTable.rows)
    /\ pc' = "keysdone"
    /\ UNCHANGED <<envVars, out, run, filterField, allFilterValues, filterValues,
                   fieldMetadata, records, i, results, queryVars, obsVars>>
    /\ UNCHANGED <<callVars, combineVars, sendVars, inputTable, chunkSize, authVars, summaryVars>>

NextResumeKeys == ReadResumeKeys

SpecResumeKeys == InitResumeKeys /\ [][NextResumeKeys]_vars

\* ------------------------------------------------------------------------
\* main from the query to the end of the record loop
\* ------------------------------------------------------------------------

\* const records = await querySalesforceRecords(...), then the record loop,
\* with appends that can be rejected
NextFetch ==
    \/ QueryStart
    \/ PageRequest
    \/ PageResponse
    \/ PageFail
    \/ ChunkDelay
    \/ LoopDone
    \/ SkipRecord
    \/ CompletionCall
    \/ CompletionOk
    \/ CompletionFail
    \/ AppendResult
    \/ AppendFail

\* main has read, authenticated and described; the filter values make no
\* query, one query or two chunk queries
InitFetch ==
    /\ InitQuery
    /\ Len(filterValues) \in {0, 1, 2, CHUNK_SIZE, CHUNK_SIZE + 1}

SpecFetch == InitFetch /\ [][NextFetch]_vars

\* ------------------------------------------------------------------------
\* sfdcJwtAuth: authorize on its own, called again and again in one process
\* ------------------------------------------------------------------------

Tokens == {"t1", "t2"}
LoginUrls == {NoUrl, "https://login.example"}
InstanceUrls == {NoUrl, "https://inst.example"}

\* a || b
Either(a, b) == IF a # NoUrl THEN a ELSE b

\* isTokenAccepted: curl answers 200 when it reaches the instance and the org
\* accepts the token; any other status and a failing curl give false
isTokenAccepted(token, instanceUrl, reachable) ==
    reachable /\ instanceUrl # NoUrl /\ token \in live

\* a cache test that does not look at the expiry
CachedTokenAny(cache, t) == cache.accessToken # NoToken

\* tokenCache.accessToken && tokenCache.expiry > Date.now()
CachedTokenFresh(cache, t) ==
    cache.accessToken # NoToken /\ cache.expiry.set /\ cache.expiry.at > t

\* a login that leaves SF_ACCESS_TOKEN as it was
EnvAfterLoginKeepsToken(env, info) ==
    [env EXCEPT !.instanceUrl = IF info.instanceUrl # NoUrl THEN info.instanceUrl ELSE @]

\* if (info.instanceUrl) process.env.SF_INSTANCE_URL = info.instanceUrl;
\* process.env.SF_ACCESS_TOKEN = token
EnvAfterLogin(env, info) ==
    [env EXCEPT !.instanceUrl = IF info.instanceUrl # NoUrl THEN info.instanceUrl ELSE @,
                !.accessToken = info.accessToken]

\* how decrypting, `sf org login jwt` and `sf org display` end: one of them
\* throws, or the display gives result.accessToken (possibly none) and
\* result.instanceUrl (possibly none)
LoginOutcomes ==
    {[ok |-> FALSE, accessToken |-> NoToken, instanceUrl |-> NoUrl]}
        \cup [ok : {TRUE}, accessToken : Tokens \cup {NoToken}, instanceUrl : InstanceUrls]

\* the module is loaded into a process whose environment is given
InitAuthorize ==
    /\ SummaryIdle
    /\ tokenCache = EmptyCache
    /\ processEnv \in [required : BOOLEAN, loginUrl : LoginUrls,
                        instanceUrl : InstanceUrls, accessToken : Tokens \cup {NoToken}]
    /\ now = 0
    /\ live \in SUBSET Tokens
    /\ authResult = NoAuthResult
    /\ SendIdle
    /\ csvHeader = S("Ext__c")
    /\ csvRows = <<>>
    /\ store = RecordUniverse
    /\ serviceFailures = 0
    /\ storeTokens = 0
    /\ out = [exists |-> FALSE, lines |-> <<>>]
    /\ outAtStart = [exists |-> FALSE, lines |-> <<>>]
    /\ pc = "authorize"
    /\ inputTable = NoTable
    /\ chunkSize = CHUNK_SIZE
    /\ run = 1
    /\ prevEnd = "none"
    /\ everAppended = <<>>
    /\ LocalsInit
    /\ CombineIdle

AuthFrame ==
    /\ UNCHANGED <<envVars, out, run, mainVars, queryVars, obsVars, callVars, combineVars,
                   sendVars, inputTable, chunkSize, summaryVars>>

\* one call of authorize, from the validation of the environment to the
\* return, the throw or process.exit(1)
Authorize ==
    /\ pc = "authorize"
    /\ \E reachEnv \in BOOLEAN, reachCache \in BOOLEAN, info \in LoginOutcomes :
         LET loginUrl == processEnv.loginUrl
             instanceUrl == Either(processEnv.instanceUrl, loginUrl)
             envToken == processEnv.accessToken
             envProbed == envToken # NoToken
             envOk == envProbed /\ isTokenAccepted(envToken, instanceUrl, reachEnv)
             cacheProbed == ~envOk /\ CachedTokenFresh(tokenCache, now)
             cacheOk == cacheProbed
                          /\ isTokenAccepted(tokenCache.accessToken, instanceUrl, reachCache)
             probes ==
                 (IF envProbed THEN <<[token |-> envToken, accepted |-> envOk]>> ELSE <<>>)
                   \o (IF cacheProbed
                       THEN <<[token |-> tokenCache.accessToken, accepted |-> cacheOk]>>
                       ELSE <<>>)
             observed == [NoAuthResult EXCEPT !.at = now, !.cacheBefore = tokenCache,
                                              !.envBefore = envToken]
             envUrlSet == [processEnv EXCEPT
                             !.instanceUrl = IF @ = NoUrl /\ loginUrl # NoUrl
                                             THEN loginUrl ELSE @]
             cleared == IF tokenCache.accessToken # NoToken THEN EmptyCache ELSE tokenCache
             envLogin == EnvAfterLogin(processEnv, info)
         IN  IF ~processEnv.required
             THEN \* throw new Error("... environment variable is required")
                  /\ authResult' = [observed EXCEPT !.kind = "threw"]
                  /\ UNCHANGED <<tokenCache, processEnv, live, pc>>
             ELSE IF envOk
             THEN \* -1) SF_ACCESS_TOKEN from the environment
                  /\ processEnv' = envUrlSet
                  /\ tokenCache' = [accessToken |-> envToken,
                                    instanceUrl |-> Either(envUrlSet.instanceUrl, loginUrl),
                                    expiry |-> [set |-> TRUE, at |-> now + TWO_HOURS]]
                  /\ authResult' = [observed EXCEPT
                                      !.kind = "returned", !.path = "env",
                                      !.probes = probes, !.accessToken = envToken,
                                      !.instanceUrl = Either(envUrlSet.instanceUrl, loginUrl)]
                  /\ UNCHANGED <<live, pc>>
             ELSE IF cacheOk
             THEN \* 0) the cached token
                  /\ processEnv' = [processEnv EXCEPT
                                      !.accessToken = tokenCache.accessToken,
                                      !.instanceUrl = tokenCache.instanceUrl]
                  /\ authResult' = [observed EXCEPT
                                      !.kind = "returned", !.path = "cache",
                                      !.probes = probes,
                                      !.accessToken = tokenCache.accessToken,
                                      !.instanceUrl = tokenCache.instanceUrl]
                  /\ UNCHANGED <<tokenCache, live, pc>>
             ELSE IF info.ok /\ info.accessToken # NoToken
             THEN \* 1) to 4) a fresh login
                  /\ processEnv' = envLogin
                  /\ live' = live \cup {info.accessToken}
                  /\ tokenCache' = [accessToken |-> info.accessToken,
                                    instanceUrl |-> Either(envLogin.instanceUrl, instanceUrl),
                                    expiry |-> [set |-> TRUE, at |-> now + TWO_HOURS]]
                  /\ authResult' = [observed EXCEPT
                                      !.kind = "returned", !.path = "login",
                                      !.probes = probes, !.login = TRUE,
                                      !.cacheAtLogin = cleared,
                                      !.accessToken = info.accessToken,
                                      !.instanceUrl = Either(envLogin.instanceUrl, instanceUrl)]
                  /\ UNCHANGED pc
             ELSE \* the login throws: catch, process.exit(1)
                  /\ tokenCache' = cleared
                  /\ authResult' = [observed EXCEPT
                                      !.kind = "exited", !.path = "login",
                                      !.probes = probes, !.login = TRUE,
                                      !.cacheAtLogin = cleared]
                  /\ pc' = "exited"
                  /\ UNCHANGED <<processEnv, live>>
    /\ UNCHANGED now
    /\ AuthFrame

\* an hour passes between two calls
Tick ==
    /\ pc = "authorize"
    /\ now < MaxNow
    /\ now' = now + 1
    /\ UNCHANGED <<tokenCache, processEnv, live, authResult, pc>>
    /\ AuthFrame

\* the org stops accepting a token (revoked, or its session has ended)
Revoke ==
    /\ pc = "authorize"
    /\ \E t \in live : live' = live \ {t}
    /\ UNCHANGED <<tokenCache, processEnv, now, authResult, pc>>
    /\ AuthFrame

NextAuthorize ==
    \/ Authorize
    \/ Tick
    \/ Revoke

SpecAuthorize == InitAuthorize /\ [][NextAuthorize]_vars

\* ------------------------------------------------------------------------
\* summarize: readResponsesFromCSV and the batching of main
\* ------------------------------------------------------------------------

\* a test that lets every response through
startsWithNothing(v) == FALSE

\* !response.startsWith('Error:')
startsWithError(v) == v # <<>> /\ v[1] \in {"Error: ", "Error:"}

\* csv-parser row object: Object.keys(data)[Object.keys(data).length - 1],
\* the last name that is not integer-like, by the place where it was first
\* set, or the integer-like name when there is no other
LastKey(hdr, row) ==
    LET names == {j \in 1..Len(hdr) : j <= Len(row) /\ hdr[j] \notin IndexNames}
        first == {j \in names : \A k \in 1..(j - 1) : hdr[k] # hdr[j]}
    IN  IF first = {} THEN hdr[Len(hdr)] ELSE hdr[SetMax(first)]

\* readResponsesFromCSV, the 'data' handler: the response of a row
ResponseOf(hdr, row) ==
    LET a == Cell(hdr, row, S("LM Studio Response"))
        b == Cell(hdr, row, S("response"))
        c == Cell(hdr, row, S("Response"))
        d == IF hdr = <<>> THEN Absent ELSE Cell(hdr, row, LastKey(hdr, row))
    IN  IF Truthy(a) THEN a ELSE IF Truthy(b) THEN b ELSE IF Truthy(c) THEN c ELSE d

\* readResponsesFromCSV: what the promise resolves with
readResponsesFromCSV(table) ==
    LET all == [j \in 1..Len(table.rows) |-> ResponseOf(table.header, table.rows[j])]
        kept == SelectSeq(all, LAMBDA v : Truthy(v) /\ Trim(v) # <<>> /\ ~startsWithError(v))
    IN  [j \in 1..Len(kept) |-> Trim(kept[j])]

\* the header the pipeline writes, for three filter fields
ResultHeaders ==
    {<<S("Salesforce Record ID"), f, S("Original Text"), S("LM Studio Response")>> :
        f \in {S("Ext__c"), S("Response"), S("7")}}

\* responses the pipeline can have written: none, white space, a text, a
\* padded text, an error outcome, a text that has "Error:" after a space
ResponseCells ==
    {<<>>, <<" ">>, S("ok"), <<" ", "fine", " ">>, <<"Error: ", "LM Studio API error: 500">>,
     <<" ", "Error:", "x">>}

ResultRows == {<<S("a"), S("f"), S("t"), r>> : r \in ResponseCells}

InitSummarize ==
    /\ AuthIdle
    /\ inputTable \in [header : ResultHeaders, rows : SeqsUpTo(ResultRows, MaxRows)]
    /\ batchSize \in 1..MaxBatch
    /\ responses = <<>>
    /\ batches = <<>>
    /\ SendIdle
    /\ csvHeader = S("Ext__c")
    /\ csvRows = <<>>
    /\ store = RecordUniverse
    /\ serviceFailures = 0
    /\ storeTokens = 0
    /\ out = [exists |-> FALSE, lines |-> <<>>]
    /\ outAtStart = [exists |-> FALSE, lines |-> <<>>]
    /\ pc = "summarize"
    /\ chunkSize = CHUNK_SIZE
    /\ run = 1
    /\ prevEnd = "none"
    /\ everAppended = <<>>
    /\ LocalsInit
    /\ CombineIdle

SummarizeFrame ==
    /\ UNCHANGED <<envVars, out, run, mainVars, queryVars, obsVars, callVars, combineVars,
                   sendVars, inputTable, chunkSize, authVars, batchSize>>

\* const responses = await readResponsesFromCSV(filename)
ReadResponses ==
    /\ pc = "summarize"
    /\ responses' = readResponsesFromCSV(inputTable)
    /\ pc' = "responses"
    /\ UNCHANGED batches
    /\ SummarizeFrame

\* the read stream emits an error: the promise rejects, main's catch exits
ReadResponsesFail ==
    /\ pc = "summarize"
    /\ pc' = "fatal"
    /\ UNCHANGED <<responses, batches>>
    /\ SummarizeFrame

\* no responses: process.exit(0); else const batches = chunkArray(responses,
\* batchSize)
MakeBatches ==
    /\ pc = "responses"
    /\ IF Len(responses) = 0
       THEN pc' = "done" /\ UNCHANGED batches
       ELSE pc' = "batched" /\ batches' = chunkArray(responses, batchSize)
    /\ UNCHANGED responses
    /\ SummarizeFrame

NextSummarize ==
    \/ ReadResponses
    \/ ReadResponsesFail
    \/ MakeBatches

SpecSummarize == InitSummarize /\ [][NextSummarize]_vars

\* ------------------------------------------------------------------------
\* chunkArray on its own
\* ------------------------------------------------------------------------

\* chunkArray is called with a short list and a small chunk size, or with a
\* list around one and two times CHUNK_SIZE and CHUNK_SIZE
InitChunk ==
    /\ AuthIdle
    /\ SummaryIdle
    /\ \/ /\ filterValues \in SeqsUpTo({S("a"), S("b")}, MaxLen)
          /\ chunkSize \in 1..MaxChunk
       \/ /\ \E k \in {CHUNK_SIZE - 1, CHUNK_SIZE, CHUNK_SIZE + 1,
                         2 * CHUNK_SIZE, 2 * CHUNK_SIZE + 1} : filterValues = KValues(k)
          /\ chunkSize = CHUNK_SIZE
    /\ chunks = <<>>
    /\ inputTable = NoTable
    /\ csvHeader = S("Ext__c")
    /\ csvRows = <<>>
    /\ store = RecordUniverse
    /\ serviceFailures = 0
    /\ storeTokens = 0
    /\ out = [exists |-> FALSE, lines |-> <<>>]
    /\ outAtStart = [exists |-> FALSE, lines |-> <<>>]
    /\ pc = "chunk"
    /\ run = 1
    /\ prevEnd = "none"
    /\ everAppended = <<>>
    /\ filterField = <<>>
    /\ allFilterValues = <<>>
    /\ processedIds = {}
    /\ fieldMetadata = {}
    /\ records = <<>>
    /\ i = 0
    /\ results = <<>>
    /\ ci = 0
    /\ allRecords = <<>>
    /\ chunkRecords = <<>>
    /\ pageCount = 0
    /\ nextRecordsUrl = <<>>
    /\ isFirstQuery = TRUE
    /\ inflight = NoRequest
    /\ sent = <<>>
    /\ queried = {}
    /\ appended = <<>>
    /\ pageLog = <<>>
    /\ waits = 0
    /\ replies = <<>>
    /\ pendingCalls = <<>>
    /\ callLog = <<>>
    /\ error = <<>>
    /\ failure = NoFailure
    /\ resumeError = "none"
    /\ CombineIdle
    /\ useCopilot = FALSE
    /\ prompt = <<>>
    /\ text = <<>>
    /\ copilotApiKey = Absent
    /\ copilotUrl = Absent
    /\ lmStudioUrlEnv = Absent
    /\ posted = NoPost
    /\ sendOutcome = NoOutcome

\* const chunks = chunkArray(filterValues, CHUNK_SIZE)
ChunkArray ==
    /\ pc = "chunk"
    /\ chunks' = chunkArray(filterValues, chunkSize)
    /\ pc' = "chunked"
    /\ UNCHANGED <<envVars, out, run, mainVars, ci, allRecords, chunkRecords, pageCount,
                   nextRecordsUrl, isFirstQuery, inflight, obsVars>>
    /\ UNCHANGED <<callVars, combineVars, sendVars, inputTable, chunkSize, authVars, summaryVars>>

NextChunk == ChunkArray

SpecChunk == InitChunk /\ [][NextChunk]_vars

\* ------------------------------------------------------------------------
\* sendToLMStudio and sendToCopilot on their own
\* ------------------------------------------------------------------------

Prompts == {<<>>, S("Extract meta-themes"), <<" ", "Rate", "\n\nText to analyze: ">>}

\* the last text has six tokens, as a long combined text has many characters
Texts ==
    { <<>>, S("x"),
      <<"Question 1", ": ", "x", "\n\n", "Q2", ": ", "z">> }

EnvKeys == {Absent, <<>>, S("test-api-key")}

EnvUrls == {Absent, S("https://xxx.openai.azure.com")}

\* HTTP statuses and bodies of an error response
HttpErrors == {<<"401", "{\"error\":\"Unauthorized\"}">>, <<"500", "{}">>}

\* error.message of a request that failed without a response
TransportErrors == {S("Network error occurred"), S("timeout of 60000ms exceeded")}

\* a sender is called with a prompt and a text, under some environment
InitSend ==
    /\ AuthIdle
    /\ SummaryIdle
    /\ useCopilot \in BOOLEAN
    /\ prompt \in Prompts
    /\ text \in Texts
    /\ copilotApiKey \in EnvKeys
    /\ copilotUrl \in EnvUrls
    /\ lmStudioUrlEnv \in {Absent, S("http://lm.local:1234/v1/chat/completions")}
    /\ posted = NoPost
    /\ sendOutcome = NoOutcome
    /\ csvHeader = S("Ext__c")
    /\ csvRows = <<>>
    /\ store = RecordUniverse
    /\ serviceFailures = 0
    /\ storeTokens = 0
    /\ out = [exists |-> FALSE, lines |-> <<>>]
    /\ outAtStart = [exists |-> FALSE, lines |-> <<>>]
    /\ pc = "send"
    /\ inputTable = NoTable
    /\ chunkSize = CHUNK_SIZE
    /\ run = 1
    /\ prevEnd = "none"
    /\ everAppended = <<>>
    /\ LocalsInit
    /\ CombineIdle

SendFrame ==
    UNCHANGED <<envVars, out, run, mainVars, queryVars, obsVars, callVars, combineVars,
                useCopilot, prompt, text, copilotApiKey, copilotUrl, lmStudioUrlEnv,
                inputTable, chunkSize, authVars, summaryVars>>

\* sendToLMStudio up to its await: the request is built and posted
SendToLMStudio ==
    /\ pc = "send"
    /\ ~useCopilot
    /\ posted' = LMStudioRequest(lmStudioUrlEnv, prompt, text)
    /\ pc' = "posted"
    /\ UNCHANGED sendOutcome
    /\ SendFrame

\* a sendToCopilot that looks at COPILOT_API_URL before COPILOT_API_KEY
SendToCopilotUrlFirst ==
    /\ pc = "send"
    /\ useCopilot
    /\ IF ~Truthy(copilotUrl)
       THEN /\ sendOutcome' = [kind |-> "thrown", value |-> CopilotUrlRequired]
            /\ pc' = "threw"
            /\ UNCHANGED posted
       ELSE IF ~Truthy(copilotApiKey)
       THEN /\ sendOutcome' = [kind |-> "thrown", value |-> CopilotKeyRequired]
            /\ pc' = "threw"
            /\ UNCHANGED posted
       ELSE /\ posted' = CopilotRequest(copilotUrl, copilotApiKey, prompt, text)
            /\ pc' = "posted"
            /\ UNCHANGED sendOutcome
    /\ SendFrame

\* sendToCopilot up to its await: the two environment checks throw before
\* the try block; otherwise the request is built and posted
SendToCopilot ==
    /\ pc = "send"
    /\ useCopilot
    /\ IF ~Truthy(copilotApiKey)
       THEN /\ sendOutcome' = [kind |-> "thrown", value |-> CopilotKeyRequired]
            /\ pc' = "threw"
            /\ UNCHANGED posted
       ELSE IF ~Truthy(copilotUrl)
       THEN /\ sendOutcome' = [kind |-> "thrown", value |-> CopilotUrlRequired]
            /\ pc' = "threw"
            /\ UNCHANGED posted
       ELSE /\ posted' = CopilotRequest(copilotUrl, copilotApiKey, prompt, text)
            /\ pc' = "posted"
            /\ UNCHANGED sendOutcome
    /\ SendFrame

\* the response has choices: return response.data.choices[0].message.content
PostOk ==
    /\ pc = "posted"
    /\ sendOutcome' = [kind |-> "returned",
                       value |-> Completion(posted.messages[Len(posted.messages)].content)]
    /\ pc' = "returned"
    /\ UNCHANGED posted
    /\ SendFrame

\* a 2xx response without choices: sendToCopilot throws inside its try, and
\* sendToLMStudio's choices[0] is a TypeError; the catch wraps either
PostNoChoices ==
    /\ pc = "posted"
    /\ sendOutcome' =
          [kind |-> "thrown",
           value |-> SenderConnectionError(useCopilot,
                        IF useCopilot
                        THEN <<"Unexpected API response format: ", "{}">>
                        ELSE S("Cannot read properties of undefined (reading '0')"))]
    /\ pc' = "threw"
    /\ UNCHANGED posted
    /\ SendFrame

\* axios.post rejects with error.response set
PostHttpError ==
    /\ pc = "posted"
    /\ \E e \in HttpErrors :
         sendOutcome' = [kind |-> "thrown",
                         value |-> SenderApiError(useCopilot, e[1], e[2])]
    /\ pc' = "threw"
    /\ UNCHANGED posted
    /\ SendFrame

\* axios.post rejects without a response (network failure, timeout)
PostTransportError ==
    /\ pc = "posted"
    /\ \E m \in TransportErrors :
         sendOutcome' = [kind |-> "thrown",
                         value |-> SenderConnectionError(useCopilot, m)]
    /\ pc' = "threw"
    /\ UNCHANGED posted
    /\ SendFrame

NextSend ==
    \/ SendToLMStudio
    \/ SendToCopilot
    \/ PostOk
    \/ PostNoChoices
    \/ PostHttpError
    \/ PostTransportError

SpecSend == InitSend /\ [][NextSend]_vars

\* ------------------------------------------------------------------------
\* Definitions used by the properties
\* ------------------------------------------------------------------------

\* a field value with at least one character that is not white space
HasNonSpace(v) == v # Absent /\ \E j \in 1..Len(v) : ~IsSpace(v[j])

\* every requested field of the record is absent, empty or white space
AllBlank(record) == \A j \in 1..Len(fields) : ~HasNonSpace(FieldOf(record, fields[j]))

NonBlankRecords(recs) == SelectSeq(recs, LAMBDA r : ~AllBlank(r))

\* the outcome rows of an artifact (every line after the header)
DataRows(art) ==
    IF art.exists /\ Len(art.lines) >= 2
    THEN {art.lines[j] : j \in 2..Len(art.lines)}
    ELSE {}

\* the lines of the artifact once this run has appended the results rs
LinesAfter(rs) ==
    IF rs = <<>> THEN outAtStart.lines
    ELSE (IF outAtStart.exists THEN outAtStart.lines ELSE <<HeaderRow(filterField)>>)
            \o [j \in 1..Len(rs) |-> RowOf(rs[j])]

\* the records one uninterrupted run on the input completes
UninterruptedIds ==
    {r.Id : r \in {x \in store :
                     /\ FieldOf(x, readCsvHeader(csvHeader))
                            \in SeqToSet(readCsvValues(csvRows))
                     /\ ~AllBlank(x)}}

CeilDiv(a, b) == (a + b - 1) \div b

RECURSIVE ConcatPages(_, _, _)
ConcatPages(all, p, n) ==
    IF n = 0 THEN <<>> ELSE ConcatPages(all, p, n - 1) \o PageRecords(all, p, n)

\* the page numbers requested for chunk c, in request order
PagesOf(c) ==
    LET es == SelectSeq(pageLog, LAMBDA e : e.chunk = c)
    IN  [j \in 1..Len(es) |-> es[j].page]

\* a chunk call has just returned
ChunkReturned == pc \in {"delay", "loop"}

\* ------------------------------------------------------------------------
\* Properties
\* ------------------------------------------------------------------------

\* C1: a record that has an outcome row in the artifact when a run starts is
\* not sent to the completion service in that run, and its filter value is in
\* no store query of that run.
C1_ResumeSetNotRedone ==
    \A row \in DataRows(outAtStart) :
        /\ \A k \in 1..Len(sent) : sent[k].recordId # row[1]
        /\ row[2] \notin queried

\* C2: a first run from an absent artifact that is interrupted, followed by a
\* second run to completion, leaves outcome rows for exactly the records that
\* one uninterrupted run completes.
C2_ResumeIdempotence ==
    (run = 2 /\ prevEnd = "killed" /\ pc = "done")
        => {row[1] : row \in DataRows(out)} = UninterruptedIds

C5_DoneRows ==
    pc = "done" =>
        LET nb == NonBlankRecords(records)
        IN  /\ Len(appended) = Len(nb)
            /\ \A k \in 1..Len(nb) :
                  /\ appended[k].recordId = nb[k].Id
                  /\ appended[k].fv = FieldOf(nb[k], filterField)
            /\ out.lines = LinesAfter(appended)

\* C5 witness: a finished run with rows, a skipped record and an input value
\* that matched no record
C5_Witness ==
    /\ pc = "done"
    /\ Len(appended) >= 2
    /\ Len(records) > Len(appended)
    /\ \E v \in SeqToSet(filterValues) :
          \A r \in store : FieldOf(r, filterField) # v

\* C6: an artifact that did not exist before the first append holds exactly
\* one header row, as its first line, followed by every appended row in
\* append order, over all invocations.
C6_HeaderOnce ==
    /\ ~out.exists => everAppended = <<>>
    /\ out.exists =>
          /\ out.lines = <<HeaderRow(readCsvHeader(csvHeader))>>
                            \o [j \in 1..Len(everAppended) |-> RowOf(everAppended[j])]
          /\ Cardinality({j \in 1..Len(out.lines) :
                            out.lines[j][1] = S("Salesforce Record ID")}) = 1

\* C6 witness: a second invocation has appended to the rows of the first
C6_Witness ==
    /\ run = 2
    /\ Len(appended) >= 1
    /\ Len(everAppended) > Len(appended)

\* C7: for k filter values querySalesforceRecords issues ceil(k / 450) chunk
\* queries, each with at most 450 values.
C7_ChunkQueries ==
    pc = "loop" =>
        /\ Cardinality({j \in 1..Len(pageLog) : pageLog[j].kind = "query"})
              = CeilDiv(Len(filterValues), CHUNK_SIZE)
        /\ \A j \in 1..Len(pageLog) : pageLog[j].size <= CHUNK_SIZE

\* C8 as stated: for every p, a store that returns a token in the first p
\* page responses of a chunk gets exactly p+1 page requests, and the chunk
\* call returns the records of the p+1 pages in request order.
C8_PaginationAnyP ==
    ChunkReturned =>
        /\ pageCount = storeTokens + 1
        /\ chunkRecords = ConcatPages(Matching(store, filterField, chunks[ci]),
                                      storeTokens, storeTokens + 1)

\* C8 amended: the same for every p <= 100; for a larger p the chunk call
\* stops after 101 page requests.
C8_Pagination ==
    ChunkReturned =>
        LET p == storeTokens
            all == Matching(store, filterField, chunks[ci])
        IN  /\ p <= MAX_PAGES =>
                  /\ pageCount = p + 1
                  /\ PagesOf(ci) = [j \in 1..p + 1 |-> j]
                  /\ chunkRecords = ConcatPages(all, p, p + 1)
            /\ p > MAX_PAGES => pageCount = MAX_PAGES + 1

\* C8 witness: a chunk of two records paged with exactly 100 tokens
C8_Witness ==
    /\ pc = "loop"
    /\ storeTokens = MAX_PAGES
    /\ pageCount = MAX_PAGES + 1
    /\ Len(chunkRecords) >= 2

\* C9: at most 100 page requests are issued for one chunk.
C9_PageCeiling == pageCount <= MAX_PAGES

\* C10: at a fetched record whose requested fields are all absent, empty or
\* white space the loop makes no completion call, appends nothing, records
\* nothing a later Resume Set would hold for it, and goes on with the next
\* record.
C10_EmptyFieldSkip ==
    [][ (/\ pc = "loop"
         /\ i >= 1
         /\ i <= Len(records)
         /\ AllBlank(records[i])
         /\ pc' # "killed")
        => /\ i' = i + 1
           /\ pc' = "loop"
           /\ sent' = sent
           /\ replies' = replies
           /\ results' = results
           /\ out' = out
           /\ records[i].Id \notin getProcessedRecordIds(out'.exists, out'.lines) ]_vars

\* C10 witness: a blank record was passed over and a later record was sent
C10_Witness ==
    /\ pc \in {"loop", "complete", "append", "done"}
    /\ \E j \in 1..Len(records) :
          /\ j < i
          /\ AllBlank(records[j])
          /\ \A k \in 1..Len(sent) : sent[k].recordId # records[j].Id
          /\ \E m \in (j + 1)..Len(records), k \in 1..Len(sent) :
                sent[k].recordId = records[m].Id

\* the text names the chunk index: "... (Chunk <index>): ..."
NamesChunk(message, index) ==
    \E j \in 1..Len(message) - 2 :
        /\ message[j] \in {"Salesforce API error (Chunk ", "Network error (Chunk "}
        /\ message[j + 1] = ToString(index)
        /\ message[j + 2] = "): "

\* the run is past the resume filtering and its memory is still there
PastResume == pc \notin {"start", "resume", "killed"}

\* C11: whenever the filter values remaining after resume filtering are none,
\* the run ends with exit status 0 and has made no remote call and written
\* nothing to the output artifact.
C11_NothingToDo ==
    (PastResume /\ resumeError # "read" /\ filterValues = <<>>)
        => /\ pc = "done"
           /\ callLog = <<>>
           /\ out = outAtStart

\* C12: when a page request of chunk c fails, the run is Fatal with an error
\* message that names c, the failed request was issued once and is the last
\* request of the run (no retry, no later chunk), and no record is processed.
C12_ChunkFailureFatal ==
    failure.kind = "query" =>
        /\ pc = "fatal"
        /\ NamesChunk(error, failure.chunk)
        /\ pendingCalls = <<>>
        /\ pageLog # <<>>
        /\ pageLog[Len(pageLog)].chunk = failure.chunk
        /\ pageLog[Len(pageLog)].page = failure.page
        /\ Cardinality({j \in 1..Len(pageLog) :
                          /\ pageLog[j].chunk = failure.chunk
                          /\ pageLog[j].page = failure.page}) = 1
        /\ \A j \in 1..Len(pageLog) : pageLog[j].chunk <= failure.chunk
        /\ sent = <<>>
        /\ results = <<>>
        /\ out = outAtStart

\* C12 witness: a continuation page of the second chunk failed
C12_Witness ==
    /\ pc = "fatal"
    /\ failure.kind = "query"
    /\ failure.chunk = 2
    /\ failure.page = 2

\* C13: a run that is Fatal after an authentication, metadata or query
\* failure has left the output artifact as it was when the run started.
C13_FatalLeavesArtifact ==
    (pc = "fatal" /\ failure.kind \in {"auth", "metadata", "query"})
        => out = outAtStart

\* C13 witness: a second run on an artifact with rows ends Fatal in its query
C13_Witness ==
    /\ pc = "fatal"
    /\ failure.kind = "query"
    /\ run = 2
    /\ Len(outAtStart.lines) >= 2
    /\ out = outAtStart

\* C14: on an input artifact with no header row readCsvFile fails, and the
\* run is Fatal before any authentication or query.
C14_MalformedInput ==
    (csvHeader = Absent /\ pc \notin {"start", "killed"})
        => /\ pc = "fatal"
           /\ callLog = <<>>

\* C15: getProcessedRecordIds gives the empty set and does not fail the run
\* when the artifact does not exist and whenever reading or parsing it raised
\* an error, wherever the error occurred.
C15_ResumeLoadBestEffort ==
    /\ (PastResume /\ ~outAtStart.exists) => processedIds = {}
    /\ resumeError # "none" =>
          /\ processedIds = {}
          /\ pc = "fatal" => failure.kind # "none"

\* C16: the record list querySalesforceRecords returns holds no record id
\* more than once, also when a filter value occurs more than once.
C16_NoDuplicateRecords ==
    pc = "loop" =>
        \A j \in 1..Len(records), k \in 1..Len(records) :
            j # k => records[j].Id # records[k].Id

\* C17: at every point of a run at most one remote call (authentication,
\* metadata lookup, store page query, completion request) is in flight.
C17_SequentialControl ==
    /\ Len(pendingCalls) <= 1
    /\ pendingCalls # <<>> =>
          /\ callLog # <<>>
          /\ pendingCalls[1] = callLog[Len(callLog)]
          /\ pc \in {"authwait", "metawait", "pagewait", "complete"}
    /\ inflight # NoRequest => pendingCalls = <<"query">>

\* C17 witness: the second completion request is in flight, after the
\* authentication, the metadata lookup and the pages of the query
C17_Witness ==
    /\ pendingCalls = <<"completion">>
    /\ Len(sent) = 2
    /\ Len(callLog) >= 6

\* C18: when authentication fails the run is Fatal, authentication was
\* attempted once, and no other remote call is made.
C18_AuthFailureFatal ==
    failure.kind = "auth" =>
        /\ pc = "fatal"
        /\ callLog = <<"auth">>
        /\ pendingCalls = <<>>
        /\ error \in AuthErrors

\* C18 witness: a second run, on an artifact with rows, failed to authenticate
C18_Witness ==
    /\ pc = "fatal"
    /\ failure.kind = "auth"
    /\ run = 2
    /\ Len(out.lines) >= 2

\* C19: every run reaches Done or Fatal, provided every remote call returns
\* or fails, whatever tokens the store returns.
C19_Termination == <>(pc \in {"done", "fatal"})

\* C19 witness: a run that met a store whose tokens never ended is Done, with
\* a row appended
C19_Witness ==
    /\ pc = "done"
    /\ storeTokens > MAX_PAGES
    /\ pageCount = MAX_PAGES + 1
    /\ Len(appended) >= 1

\* the value without its leading and trailing white space
Trimmed(v) ==
    LET solid == {j \in 1..Len(v) : ~IsSpace(v[j])}
    IN  IF solid = {} THEN <<>>
        ELSE SubSeq(v, CHOOSE j \in solid : \A k \in solid : j <= k, SetMax(solid))

\* the metadata label of the field, or its raw name without an entry
ExpectedLabel(meta, name) ==
    IF \E e \in meta : e.name = name
    THEN (CHOOSE e \in meta : e.name = name).label
    ELSE name

\* "<label>: <trimmed value>" of every field with text, in declared order
RECURSIVE ExpectedEntries(_, _, _)
ExpectedEntries(rec, names, meta) ==
    IF names = <<>> THEN <<>>
    ELSE LET v == FieldOf(rec, Head(names))
             rest == ExpectedEntries(rec, Tail(names), meta)
         IN  IF HasNonSpace(v)
             THEN <<ExpectedLabel(meta, Head(names)) \o <<": ">> \o Trimmed(v)>> \o rest
             ELSE rest

\* the entries with a blank line between two of them
RECURSIVE BlankLineJoined(_)
BlankLineJoined(entries) ==
    IF entries = <<>> THEN <<>>
    ELSE IF Len(entries) = 1 THEN entries[1]
    ELSE BlankLineJoined(SubSeq(entries, 1, Len(entries) - 1))
            \o <<"\n\n">> \o entries[Len(entries)]

UserMessages == SelectSeq(posted.messages, LAMBDA m : m.role = "user")

\* the sequence t occurs in s from position k on
OccursAt(s, t, k) == k + Len(t) - 1 <= Len(s) /\ SubSeq(s, k, k + Len(t) - 1) = t

\* the thrown message starts with the given tokens
ThrownWith(start) ==
    /\ sendOutcome.kind = "thrown"
    /\ OccursAt(sendOutcome.value, start, 1)

\* C21: the request a sender posts has one user message, whose content is the
\* prompt, then "\n\nText to analyze: ", then the whole text, and nothing else.
C21_RequestComposition ==
    posted # NoPost =>
        /\ Len(UserMessages) = 1
        /\ LET content == UserMessages[1].content
           IN  /\ Len(content) = Len(prompt) + 1 + Len(text)
               /\ OccursAt(content, prompt, 1)
               /\ content[Len(prompt) + 1] = "\n\nText to analyze: "
               /\ OccursAt(content, text, Len(prompt) + 2)

\* C21 witness: sendToCopilot has posted a request with the longest text
C21_Witness ==
    /\ pc = "posted"
    /\ useCopilot
    /\ Len(text) = 7
    /\ prompt = S("Extract meta-themes")
    /\ Len(posted.messages) = 2

\* C22: with COPILOT_API_KEY not set sendToCopilot rejects with the
\* "COPILOT_API_KEY environment variable is required ..." error and posts no
\* request, whatever the other settings are.
C22_CopilotKeyRequired ==
    (useCopilot /\ copilotApiKey = Absent /\ pc # "send")
        => /\ pc = "threw"
           /\ sendOutcome = [kind |-> "thrown", value |-> CopilotKeyRequired]
           /\ posted = NoPost

\* C22 witness: the key is not set, the URL is, and the call has thrown
C22_Witness ==
    /\ pc = "threw"
    /\ useCopilot
    /\ copilotApiKey = Absent
    /\ copilotUrl # Absent

\* C23: with COPILOT_API_KEY set and COPILOT_API_URL not set sendToCopilot
\* posts its request to a default endpoint; an HTTP error status s makes it
\* reject with "Copilot API error: s", a transport failure with "Copilot
\* connection error".
C23_CopilotDefaultEndpoint ==
    (useCopilot /\ Truthy(copilotApiKey) /\ copilotUrl = Absent /\ pc # "send")
        => /\ posted # NoPost
           /\ pc = "threw" =>
                 \/ \E e \in HttpErrors : ThrownWith(<<"Copilot", " API error: ", e[1]>>)
                 \/ ThrownWith(<<"Copilot", " connection error: ">>)

\* the pages requested of a chunk when the store hands out p tokens
PagesFetched(p) == IF p + 1 <= MAX_PAGES + 1 THEN p + 1 ELSE MAX_PAGES + 1

\* what the store served for chunks 1..c: page after page, chunk after chunk
RECURSIVE FetchedUpTo(_)
FetchedUpTo(c) ==
    IF c = 0 THEN <<>>
    ELSE FetchedUpTo(c - 1)
            \o ConcatPages(Matching(store, filterField, chunks[c]), storeTokens,
                            PagesFetched(storeTokens))

\* the page limit has ended the pagination of the chunk that just returned
StoppedByLimit == ChunkReturned /\ pageCount > MAX_PAGES /\ nextRecordsUrl # <<>>

\* C24: when the page limit stops the pagination of a chunk the chunk call
\* returns, without an error, the records of all pages fetched so far; the
\* fetch goes on with the next chunk, and after the last chunk the records
\* of all chunks are handed to the record loop.
C24_PageLimitReturns ==
    /\ (pc = "fatal" /\ storeTokens > MAX_PAGES) => failure.kind = "query"
    /\ StoppedByLimit =>
          /\ error = <<>>
          /\ failure = NoFailure
          /\ PagesOf(ci) = [j \in 1..MAX_PAGES + 1 |-> j]
          /\ chunkRecords = ConcatPages(Matching(store, filterField, chunks[ci]),
                                        storeTokens, MAX_PAGES + 1)
          /\ allRecords = FetchedUpTo(ci)
          /\ pc = (IF ci < Len(chunks) THEN "delay" ELSE "loop")
          /\ pc = "loop" => records = FetchedUpTo(Len(chunks)) /\ i = 1

\* C24 witness: both chunks of a fetch were stopped by the page limit, and
\* the records of both are at the record loop
C24_Witness ==
    /\ StoppedByLimit
    /\ pc = "loop"
    /\ Len(chunks) = 2
    /\ Len(pageLog) = 2 * (MAX_PAGES + 1)
    /\ Len(records) >= 5

\* the lines of a are the first lines of b
IsPrefix(a, b) == Len(a) <= Len(b) /\ SubSeq(b, 1, Len(a)) = a

\* C25: every step of every run leaves an existing output artifact in
\* existence with its previous lines as the unchanged first lines of its new
\* content; a write adds lines and touches nothing before them.
C25_AppendOnly ==
    [][ out.exists => /\ out'.exists
                      /\ IsPrefix(out.lines, out'.lines) ]_vars

\* C25 witness: a second run has added a row to the rows a first run left
C25_Witness ==
    /\ run = 2
    /\ outAtStart.exists
    /\ Len(outAtStart.lines) >= 2
    /\ Len(out.lines) > Len(outAtStart.lines)
    /\ IsPrefix(outAtStart.lines, out.lines)

\* C26: with n chunks the fetch waits the fixed delay n-1 times: once between
\* the last page response of a chunk and the first request of the next chunk,
\* never between two pages of a chunk and never after the last chunk.
C26_InterChunkDelay ==
    /\ [](ci >= 1 => waits = ci - 1)
    /\ [](\A j \in 1..Len(pageLog) : pageLog[j].chunk <= waits + 1)
    /\ [](pc = "loop" => waits = Len(chunks) - 1)
    /\ [][ waits' # waits =>
              /\ waits' = waits + 1
              /\ ci < Len(chunks)
              /\ ci' = ci + 1
              /\ inflight = NoRequest
              /\ pageLog # <<>>
              /\ pageLog[Len(pageLog)].chunk = ci
              /\ pageLog' = pageLog
              /\ isFirstQuery' ]_vars

\* C26 witness: a fetch of three chunks of two pages each has returned
C26_Witness ==
    /\ pc = "loop"
    /\ Len(chunks) = 3
    /\ storeTokens = 1
    /\ Len(pageLog) = 6
    /\ waits = 2

\* C27: the chunk call returns its pages' records in request order, and
\* querySalesforceRecords returns the chunks' records in chunk order: every
\* record the store served is there, at its place, as often as it was served.
C27_Concatenation ==
    /\ ChunkReturned =>
          /\ \A c \in 1..ci : PagesOf(c) = [j \in 1..PagesFetched(storeTokens) |-> j]
          /\ chunkRecords = ConcatPages(Matching(store, filterField, chunks[ci]),
                                        storeTokens, PagesFetched(storeTokens))
          /\ allRecords = FetchedUpTo(ci)
    /\ pc = "loop" =>
          /\ ci = Len(chunks)
          /\ records = FetchedUpTo(Len(chunks))

\* C27 witness: two chunks of two pages each were fetched, and two records
\* that both chunks matched are in the list twice
C27_Witness ==
    /\ pc = "loop"
    /\ Len(chunks) = 2
    /\ storeTokens = 1
    /\ Len(records) = 6
    /\ records[2].Id = records[5].Id
    /\ records[3].Id = records[6].Id

\* C28: the first request of a chunk, and no other, carries the filter query;
\* every later request of the chunk uses the token that the response to the
\* request just before it returned; the pages of a chunk are asked for one
\* after the other, each once, and no request of a chunk uses a token of
\* another chunk.
C28_SequentialPagination ==
    /\ inflight # NoRequest =>
          /\ inflight = pageLog[Len(pageLog)]
          /\ inflight.chunk = ci
    /\ \A j \in 1..Len(pageLog) :
          LET e == pageLog[j]
          IN  IF j = 1
              THEN e.kind = "query" /\ e.chunk = 1 /\ e.page = 1
              ELSE IF pageLog[j - 1].chunk # e.chunk
              THEN /\ e.kind = "query"
                   /\ e.chunk = pageLog[j - 1].chunk + 1
                   /\ e.page = 1
              ELSE /\ e.kind = "next"
                   /\ TokenAfter(pageLog[j - 1]) = <<[chunk |-> e.chunk, page |-> e.page]>>
                   /\ e.page = pageLog[j - 1].page + 1

\* C28 witness: two chunks of three pages each were fetched
C28_Witness ==
    /\ pc = "loop"
    /\ Len(chunks) = 2
    /\ storeTokens = 2
    /\ Len(pageLog) = 6
    /\ pageLog[3].kind = "next"
    /\ pageLog[4].kind = "query"

\* the first cells of the data rows that have text, trimmed, in file order
RECURSIVE FirstColumn(_)
FirstColumn(rows) ==
    IF rows = <<>> THEN <<>>
    ELSE LET v == Head(rows)[1]
         IN  (IF HasNonSpace(v) THEN <<Trimmed(v)>> ELSE <<>>) \o FirstColumn(Tail(rows))

\* C29: readCsvFile returns the trimmed first header name as filter field,
\* and as values the trimmed first cell of every data row whose first cell
\* has text, in file order with duplicates kept; rows with an empty or blank
\* first cell are skipped and no other column is looked at.
C29_IdentifierSource ==
    pc = "readdone" =>
        /\ filterField = Trimmed(inputTable.header[1])
        /\ allFilterValues = FirstColumn(inputTable.rows)

\* the values at positions lo..hi that are not in the set, in their order
RECURSIVE RemainingIn(_, _, _, _)
RemainingIn(values, set, lo, hi) ==
    IF lo > hi THEN <<>>
    ELSE IF lo = hi THEN (IF values[lo] \in set THEN <<>> ELSE <<values[lo]>>)
    ELSE RemainingIn(values, set, lo, (lo + hi) \div 2)
            \o RemainingIn(values, set, (lo + hi) \div 2 + 1, hi)

\* resume filtering has just been done: main is about to authenticate, or
\* has left through the early exit
JustFiltered == pc = "auth" \/ (pc = "done" /\ callLog = <<>>)

\* C30: when resume filtering is done the remaining values are the input
\* values that are not in the Resume Set, in their original order and as often
\* as they occur: none outside the set is dropped, none inside it is kept.
C30_ResumeFiltering ==
    JustFiltered
        => filterValues = RemainingIn(allFilterValues, processedIds, 1, Len(allFilterValues))

\* C30 witness: a second run drops every occurrence of a value in the Resume
\* Set from an input of 451 values and keeps the 300 others
C30_Witness ==
    /\ run = 2
    /\ pc = "auth"
    /\ processedIds = {S("a")}
    /\ Len(allFilterValues) = CHUNK_SIZE + 1
    /\ Len(filterValues) = 300
    /\ filterValues[1] = S("b")
    /\ filterValues[2] = S("z")
    /\ filterValues[3] = S("b")

\* the cell of the row in the first column of the given name, if any
NamedColumn(hdr, row, name) ==
    LET idx == {j \in 1..Len(hdr) : hdr[j] = name /\ j <= Len(row)}
    IN  IF idx = {} THEN Absent ELSE row[CHOOSE j \in idx : \A k \in idx : j <= k]

\* the resume key of a row: the "Salesforce Record ID" column if it has a
\* value, else the "recordId" column if it has one, else the first column
ExpectedResumeKey(hdr, row) ==
    LET a == NamedColumn(hdr, row, S("Salesforce Record ID"))
        b == NamedColumn(hdr, row, S("recordId"))
    IN  IF a # Absent /\ a # <<>> THEN a
        ELSE IF b # Absent /\ b # <<>> THEN b
        ELSE row[1]

\* C31: for each row of an existing artifact getProcessedRecordIds takes the
\* resume key from the "Salesforce Record ID" column, else from the "recordId"
\* column, else from the first column, and the Resume Set holds the trimmed
\* keys that have text, and nothing else.
C31_ResumeKeyPriority ==
    pc = "keysdone" =>
        processedIds
          = { Trimmed(ExpectedResumeKey(inputTable.header, inputTable.rows[j])) :
                j \in {k \in 1..Len(inputTable.rows) :
                          HasNonSpace(ExpectedResumeKey(inputTable.header,
                                                        inputTable.rows[k]))} }

\* C32: chunkArray returns consecutive chunks that, laid end to end, are the
\* input list: every chunk is non-empty, every chunk but the last has exactly
\* chunkSize elements, and every position of the list is in exactly one chunk.
C32_ChunkPartition ==
    pc = "chunked" =>
        LET n == Len(chunks)
            k == Len(filterValues)
        IN  /\ n = CeilDiv(k, chunkSize)
            /\ \A c \in 1..n : Len(chunks[c]) >= 1
            /\ \A c \in 1..n - 1 : Len(chunks[c]) = chunkSize
            /\ n >= 1 => Len(chunks[n]) = k - (n - 1) * chunkSize
            /\ \A p \in 1..k :
                  chunks[((p - 1) \div chunkSize) + 1][((p - 1) % chunkSize) + 1]
                      = filterValues[p]

\* C32 witness: five elements in chunks of two, two and one
C32_Witness ==
    /\ pc = "chunked"
    /\ chunkSize = 2
    /\ filterValues = <<S("a"), S("b"), S("b"), S("a"), S("a")>>
    /\ chunks = << <<S("a"), S("b")>>, <<S("b"), S("a")>>, <<S("a")>> >>

\* a completion call has been issued or an outcome row appended in this run
Processing == sent # <<>> \/ appended # <<>>

\* the pages 1..n of chunk c have been requested and answered
FetchedPages(c, n) ==
    /\ PagesOf(c) = [j \in 1..n |-> j]
    /\ inflight = NoRequest

\* C33: no completion call is issued and no outcome row is appended before
\* every chunk of the run has been fetched to its end, which is its last page
\* or, for a result set of more pages, page MAX_PAGES + 1; a query failure
\* occurs only where the run has appended nothing.
C33_FetchPrecedesProcessing ==
    /\ Processing =>
          /\ chunks # <<>>
          /\ \A c \in 1..Len(chunks) : FetchedPages(c, PagesFetched(storeTokens))
    /\ failure.kind = "query" => ~Processing /\ out = outAtStart

\* C33 as stated: every chunk has been fetched to its last page
C33_FetchedToLastPage ==
    Processing =>
        /\ chunks # <<>>
        /\ \A c \in 1..Len(chunks) : FetchedPages(c, storeTokens + 1)

\* C33 witness: a row is appended after two chunks, each of them ended by
\* the page limit
C33_Witness ==
    /\ appended # <<>>
    /\ Len(chunks) = 2
    /\ storeTokens > MAX_PAGES
    /\ Len(pageLog) = 2 * (MAX_PAGES + 1)

\* C33 witness: a row is appended after two chunks of two pages each
C33_WitnessLastPage ==
    /\ appended # <<>>
    /\ Len(chunks) = 2
    /\ storeTokens = 1
    /\ Len(pageLog) = 4

\* C33 witness: a query fails on the second chunk, nothing appended
C33_WitnessFailure ==
    /\ failure.kind = "query"
    /\ failure.chunk = 2
    /\ pc = "fatal"

\* a result whose response starts with "Error: "
IsErrorRow(r) == r.response # <<>> /\ r.response[1] = "Error: "

\* the completion call issued for the record of result r failed
CompletionFailedFor(r) ==
    \E n \in 1..Len(replies) :
        /\ ~replies[n].ok
        /\ sent[n].recordId = r.recordId
        /\ sent[n].text = r.originalText

\* C34: an "Error: " row is appended for a record only if the completion
\* call for that record failed, and each record handled by the loop
\* contributes at most one entry to the run's result list.
C34_ErrorRowOnlyForFailedCompletion ==
    /\ \A j \in 1..Len(appended) :
          IsErrorRow(appended[j]) => CompletionFailedFor(appended[j])
    /\ pc = "loop" => Len(results) <= i - 1
    /\ pc \in {"complete", "append"} => Len(results) <= i

\* C34, the part about rows only
C34_ErrorRowsOnly ==
    \A j \in 1..Len(appended) :
        IsErrorRow(appended[j]) => CompletionFailedFor(appended[j])

\* the rows of the artifact at the start of the run whose response is an
\* "Error: " outcome
ErrorRowsAtStart ==
    {row \in DataRows(outAtStart) : row[4] # <<>> /\ row[4][1] = "Error: "}

\* C35, the Resume Set only: the resume key of every row of the artifact is
\* in the Resume Set, whatever the response of the row is.
C35_EveryRowInResumeSet ==
    (PastResume /\ resumeError = "none") =>
        \A row \in DataRows(outAtStart) :
            HasNonSpace(row[1]) => Trimmed(row[1]) \in processedIds

\* C35: the resume key of every row of the artifact is in the Resume Set,
\* whatever its response, and in a run that has read the artifact without an
\* error the completion of a record whose row there is an "Error: " row is
\* not called again.
C35_ErrorRowsNotRetried ==
    /\ C35_EveryRowInResumeSet
    /\ resumeError = "none" =>
          \A row \in ErrorRowsAtStart :
              \A k \in 1..Len(sent) : sent[k].recordId # row[1]

\* the last call of authorize returned a token
Returned == authResult.kind = "returned"

\* token was accepted by a validation probe of the last call
ProbedAndAccepted(token) ==
    \E n \in 1..Len(authResult.probes) :
        authResult.probes[n].token = token /\ authResult.probes[n].accepted

\* C36: authorize returns a token without a fresh login only if the token,
\* taken from SF_ACCESS_TOKEN or from the cache, was accepted by the probe in
\* the same call and, on the cache path, the cached expiry lay in the future;
\* and whenever a fresh login is attempted the cache holds no token.
C36_TokenReuse ==
    /\ (Returned /\ ~authResult.login) =>
          /\ ProbedAndAccepted(authResult.accessToken)
          /\ authResult.path \in {"env", "cache"}
          /\ authResult.path = "env" => authResult.accessToken = authResult.envBefore
          /\ authResult.path = "cache" =>
                /\ authResult.accessToken = authResult.cacheBefore.accessToken
                /\ authResult.cacheBefore.expiry.set
                /\ authResult.cacheBefore.expiry.at > authResult.at
    /\ authResult.login => authResult.cacheAtLogin = EmptyCache

\* C36 witness: a cached token is reused after SF_ACCESS_TOKEN was rejected
C36_Witness ==
    /\ Returned
    /\ authResult.path = "cache"
    /\ Len(authResult.probes) = 2
    /\ ~authResult.probes[1].accepted

\* C36 witness: a login is attempted in a call that found an expired token
\* in the cache
C36_WitnessExpired ==
    /\ authResult.login
    /\ authResult.cacheBefore.accessToken # NoToken
    /\ authResult.cacheBefore.expiry.at <= authResult.at

\* C36 witness: a login is attempted in a call whose probe rejected the
\* cached token
C36_WitnessRejected ==
    /\ authResult.login
    /\ authResult.cacheBefore.accessToken # NoToken
    /\ authResult.cacheBefore.expiry.at > authResult.at

\* C37: after every successful return of authorize the cached accessToken,
\* SF_ACCESS_TOKEN and the returned accessToken are one token, and the cache
\* expiry is set.
C37_CacheEnvReturnAgree ==
    [][(Authorize /\ authResult'.kind = "returned") =>
          /\ authResult'.accessToken # NoToken
          /\ tokenCache'.accessToken = authResult'.accessToken
          /\ processEnv'.accessToken = authResult'.accessToken
          /\ tokenCache'.expiry.set
          /\ tokenCache'.expiry.at > now']_vars

\* C37 witness: a third token source: the login replaced a rejected
\* SF_ACCESS_TOKEN by another token
C37_Witness ==
    /\ Returned
    /\ authResult.path = "login"
    /\ authResult.envBefore # NoToken
    /\ authResult.envBefore # authResult.accessToken
    /\ processEnv.accessToken = authResult.accessToken
    /\ tokenCache.accessToken = authResult.accessToken

\* the cells of the LM Studio Response column, in file order
ResponseColumn ==
    [j \in 1..Len(inputTable.rows) |-> inputTable.rows[j][4]]

\* the response is an error outcome: its text starts with "Error:"
IsErrorText(v) == v # <<>> /\ v[1] \in {"Error: ", "Error:"}

\* the responses the summarizer is to return, in file order: those with
\* text other than white space that are no error outcomes, trimmed
ExpectedResponses ==
    LET kept == SelectSeq(ResponseColumn, LAMBDA v : HasNonSpace(v) /\ ~IsErrorText(v))
    IN  [j \in 1..Len(kept) |-> Trimmed(kept[j])]

\* the same for every response that is not empty
ExpectedNonEmpty ==
    LET kept == SelectSeq(ResponseColumn, LAMBDA v : v # <<>> /\ ~IsErrorText(v))
    IN  [j \in 1..Len(kept) |-> Trimmed(kept[j])]

\* the results file has no column named response or Response besides the
\* LM Studio Response column
OneResponseColumn ==
    \A j \in 1..Len(inputTable.header) :
        inputTable.header[j] \notin {S("response"), S("Response")}

\* the responses that went into the batches, batch after batch
RECURSIVE Batched(_)
Batched(n) == IF n = 0 THEN <<>> ELSE Batched(n - 1) \o batches[n]

\* C38: readResponsesFromCSV returns no response that starts with "Error:",
\* so no batch holds one; every other response that has text other than
\* white space is returned exactly once, trimmed, in file order, when the
\* file has no other column named response or Response.
C38_ErrorRowsNotSummarized ==
    /\ (pc \in {"responses", "batched", "done"} /\ OneResponseColumn) =>
          responses = ExpectedResponses
    /\ pc \in {"responses", "batched", "done"} =>
          Len(responses)
              <= Cardinality({j \in 1..Len(ResponseColumn) : ~IsErrorText(ResponseColumn[j])})
    /\ pc = "batched" => Batched(Len(batches)) = responses

\* C38 as stated: every response that is not empty and does not start with
\* "Error:" is returned, trimmed, in file order, and nothing else
C38_EveryNonEmptyResponse ==
    pc \in {"responses", "batched", "done"} => responses = ExpectedNonEmpty

\* C38 witness: an error row between two responses is left out of the one
\* batch that holds the two
C38_Witness ==
    /\ pc = "batched"
    /\ Len(inputTable.rows) = 2
    /\ IsErrorText(ResponseColumn[1])
    /\ ResponseColumn[2] = <<" ", "fine", " ">>
    /\ batches = << <<S("fine")>> >>

====
